---- MODULE Spec2Model ----
(***************************************************************************)
(* A model of libavif's gain-map core, src/src/gainmap.c: metadata         *)
(* validation, the outlier-robust range estimator, and the Apply and       *)
(* Compute entry points with their collaborators' outcomes.                *)
(*                                                                         *)
(* One call of one public operation is modelled per behaviour: Init draws  *)
(* the call's inputs, the operation's action runs the whole function and   *)
(* leaves its return value in `result` and its effects in the other        *)
(* variables.                                                              *)
(*                                                                         *)
(* Numbers.  Fractions are records [n, d].  The fields of avifSignedFraction*)
(* and avifUnsignedFraction are FracBits wide here (32 in the source) and  *)
(* the 64-bit products of the validator are 2*FracBits wide.  A float is   *)
(* modelled by the exact value it stands for: a reduced rational [n, d]    *)
(* with d > 0 for headrooms and weights, an integer count of thousandths   *)
(* for the values of a gain-map buffer.                                    *)
(***************************************************************************)
EXTENDS Integers, Naturals, Sequences, FiniteSets, TLC

VARIABLES
    op,       \* the public operation being called
    args,     \* its arguments other than the gain map
    gainMap,  \* the caller's avifGainMap: metadata, alt descriptors, image
    out,      \* what the call wrote through its output pointers
    heap,     \* how often each scratch buffer was allocated and released
    diag,     \* the diagnostics sink (avifDiagnostics): "" when empty
    result    \* the avifResult returned, "pending" before the call returns

vars == <<op, args, gainMap, out, heap, diag, result>>

Channels == 0 .. 2

\* avifResult values used by the core.
AVIF_RESULT_OK == "OK"
AVIF_RESULT_INVALID_ARGUMENT == "INVALID_ARGUMENT"
AVIF_RESULT_NOT_IMPLEMENTED == "NOT_IMPLEMENTED"
AVIF_RESULT_OUT_OF_MEMORY == "OUT_OF_MEMORY"
AVIF_RESULT_UNKNOWN_ERROR == "UNKNOWN_ERROR"

Pending == "pending"


\* The scratch allocations the core makes, and the heap's record of them:
\* how many times each was allocated and how many times released.
Scratch == {"rgbGainMap", "rescaledGainMap", "baseImageRgb", "altImageRgb",
            "gainMapF0", "gainMapF1", "gainMapF2", "gainMapRGB", "histogram"}
NoHeap == [allocated |-> [x \in Scratch |-> 0], released |-> [x \in Scratch |-> 0]]
Alloc(h, x) == [h EXCEPT !.allocated[x] = @ + 1]
\* Releasing what was never allocated (a null pointer) does nothing.
Free(h, x) == IF h.allocated[x] > h.released[x] THEN [h EXCEPT !.released[x] = @ + 1] ELSE h
Live(h) == {x \in Scratch : h.allocated[x] > h.released[x]}

\* F(x), with the expression x evaluated once.
Bind(x, F(_)) == CHOOSE y \in {F(v) : v \in {x}} : TRUE

----------------------------------------------------------------------------
(* Integer widths *)

\* Width in bits of a fraction's numerator and denominator.
FracBits == 7

RECURSIVE Pow2(_)
Pow2(k) == IF k = 0 THEN 1 ELSE 2 * Pow2(k - 1)

INT32_MIN == -Pow2(FracBits - 1)
INT32_MAX == Pow2(FracBits - 1) - 1
UINT32_MAX == Pow2(FracBits) - 1

\* The value of x in a signed integer of 2*FracBits bits (int64_t).
ToInt64(x) ==
    LET m == Pow2(2 * FracBits)
        h == Pow2(2 * FracBits - 1)
    IN  ((x + h) % m) - h

\* The value of x in an unsigned integer of FracBits bits (uint32_t).
ToUint32(x) == x % Pow2(FracBits)

Frac(n, d) == [n |-> n, d |-> d]

(* Exact rationals: [n, d] with d > 0, reduced by Rat. *)
Abs(x) == IF x < 0 THEN -x ELSE x

RECURSIVE GCD(_, _)
GCD(a, b) == IF b = 0 THEN a ELSE GCD(b, a % b)

Rat(n, d) ==
    LET g == GCD(Abs(n), Abs(d))
        sgn == IF d < 0 THEN -1 ELSE 1
    IN  [n |-> (sgn * n) \div g, d |-> (sgn * d) \div g]

RatLess(a, b) == a.n * b.d < b.n * a.d
RatSub(a, b) == Rat(a.n * b.d - b.n * a.d, a.d * b.d)
RatDiv(a, b) == Rat(a.n * b.d, a.d * b.n)
RatNeg(a) == [n |-> -a.n, d |-> a.d]
RatClamp(x, lo, hi) == IF RatLess(x, lo) THEN lo ELSE IF RatLess(hi, x) THEN hi ELSE x
RatZero == [n |-> 0, d |-> 1]
RatOne == [n |-> 1, d |-> 1]

----------------------------------------------------------------------------
(* Metadata: defaults and validation *)

\* The metadata fields as avifGainMapSetEncodingDefaults leaves them.
EncodingDefaults ==
    [gainMapMin           |-> [c \in Channels |-> Frac(1, 1)],
     gainMapMax           |-> [c \in Channels |-> Frac(1, 1)],
     baseOffset           |-> [c \in Channels |-> Frac(1, 64)],
     alternateOffset      |-> [c \in Channels |-> Frac(1, 64)],
     gainMapGamma         |-> [c \in Channels |-> Frac(1, 1)],
     baseHdrHeadroom      |-> Frac(0, 1),
     alternateHdrHeadroom |-> Frac(1, 1),
     useBaseColorSpace    |-> 1]

MetadataFields == DOMAIN EncodingDefaults

\* gainMap with its metadata fields overwritten by those of m.
WithMetadata(g, m) ==
    [f \in DOMAIN g |-> IF f \in MetadataFields THEN m[f] ELSE g[f]]

\* The metadata left as the caller passed it.
SetEncodingDefaultsSkipped(g) == g

avifGainMapSetEncodingDefaults(g) == WithMetadata(g, EncodingDefaults)

\* max.n * min.d < min.n * max.d with the numerators widened to int64_t first.
CrossLess32(maxF, minF) ==
    ToUint32(ToUint32(maxF.n) * minF.d) < ToUint32(ToUint32(minF.n) * maxF.d)

CrossLess(maxF, minF) ==
    ToInt64(ToInt64(maxF.n) * minF.d) < ToInt64(ToInt64(minF.n) * maxF.d)

\* The first failing check of channel i, "" when the channel passes.
ChannelError(g, i) ==
    IF \/ g.gainMapMin[i].d = 0 \/ g.gainMapMax[i].d = 0 \/ g.gainMapGamma[i].d = 0
       \/ g.baseOffset[i].d = 0 \/ g.alternateOffset[i].d = 0
    THEN "Per-channel denominator is 0 in gain map metadata"
    ELSE IF CrossLess(g.gainMapMax[i], g.gainMapMin[i])
    THEN "Per-channel max is less than per-channel min in gain map metadata"
    ELSE IF g.gainMapGamma[i].n = 0
    THEN "Per-channel gamma is 0 in gain map metadata"
    ELSE ""

\* avifGainMapValidateMetadata: [res, msg], msg being what it prints to diag.
avifGainMapValidateMetadata(g) ==
    LET bad == {i \in Channels : ChannelError(g, i) # ""}
        Min(S) == CHOOSE x \in S : \A y \in S : x <= y
    IN  IF bad # {}
        THEN [res |-> AVIF_RESULT_INVALID_ARGUMENT, msg |-> ChannelError(g, Min(bad))]
        ELSE IF g.baseHdrHeadroom.d = 0 \/ g.alternateHdrHeadroom.d = 0
        THEN [res |-> AVIF_RESULT_INVALID_ARGUMENT,
              msg |-> "Headroom denominator is 0 in gain map metadata"]
        ELSE IF g.useBaseColorSpace # 0 /\ g.useBaseColorSpace # 1
        THEN [res |-> AVIF_RESULT_INVALID_ARGUMENT,
              msg |-> "useBaseColorSpace is %d in gain map metadata"]
        ELSE [res |-> AVIF_RESULT_OK, msg |-> ""]

----------------------------------------------------------------------------
(* The calls of avifGainMapValidateMetadata *)

NoArgs == [none |-> TRUE]
NoOut == [none |-> TRUE]

\* Numerators and denominators at the ends and in the middle of their ranges.
SignedNumerators == {INT32_MIN, -1, 0, 1, 2, INT32_MAX}
Denominators == {0, 1, 3, UINT32_MAX}
SignedFractions == {Frac(n, d) : n \in SignedNumerators, d \in Denominators}

Defects == {"none", "gamma.d", "gamma.n", "baseOffset.d", "alternateOffset.d",
            "baseHdrHeadroom.d", "alternateHdrHeadroom.d", "useBaseColorSpace"}

\* g with one field of channel c (or one global field) made invalid.
WithDefect(g, defect, c) ==
    CASE defect = "none" -> g
      [] defect = "gamma.d" ->
            [g EXCEPT !.gainMapGamma[c] = Frac(1, 0)]
      [] defect = "gamma.n" ->
            [g EXCEPT !.gainMapGamma[c] = Frac(0, 1)]
      [] defect = "baseOffset.d" ->
            [g EXCEPT !.baseOffset[c] = Frac(1, 0)]
      [] defect = "alternateOffset.d" ->
            [g EXCEPT !.alternateOffset[c] = Frac(1, 0)]
      [] defect = "baseHdrHeadroom.d" ->
            [g EXCEPT !.baseHdrHeadroom = Frac(c, 0)]
      [] defect = "alternateHdrHeadroom.d" ->
            [g EXCEPT !.alternateHdrHeadroom = Frac(c, 0)]
      [] defect = "useBaseColorSpace" ->
            [g EXCEPT !.useBaseColorSpace = IF c = 0 THEN 0 ELSE c + 1]

ValidateInputs ==
    {WithDefect([EncodingDefaults EXCEPT !.gainMapMin[c] = mn, !.gainMapMax[c] = mx],
                defect, c2) :
        c \in Channels, mn \in SignedFractions, mx \in SignedFractions,
        defect \in Defects, c2 \in Channels}

InitValidate ==
    /\ op = "validate"
    /\ args = NoArgs
    /\ gainMap \in ValidateInputs
    /\ out = NoOut
    /\ heap = NoHeap
    /\ diag = ""
    /\ result = Pending

\* A call of avifGainMapValidateMetadata(gainMap, diag).
Validate ==
    /\ op = "validate"
    /\ result = Pending
    /\ LET r == avifGainMapValidateMetadata(gainMap)
       IN  /\ result' = r.res
           /\ diag' = IF r.msg # "" THEN r.msg ELSE diag
    /\ UNCHANGED <<op, args, gainMap, out, heap>>

NextValidate == Validate

SpecValidate == InitValidate /\ [][NextValidate]_vars

----------------------------------------------------------------------------
(* The outlier-robust range estimator *)

(* A buffer of floats is a bag: a function from the distinct values it     *)
(* holds, in thousandths, to how many times each occurs.  The estimator    *)
(* reads the buffer only through its minimum, its maximum and its          *)
(* histogram, none of which depends on the order of the values.            *)
(* A value the estimator returns is w + r/d thousandths with 0 <= r < d,   *)
(* the exact value of the float expression.                                *)

SetMin(S) == CHOOSE x \in S : \A y \in S : x <= y
SetMax(S) == CHOOSE x \in S : \A y \in S : x >= y

RECURSIVE SumOver(_, _)
SumOver(f, S) ==
    IF S = {} THEN 0
    ELSE LET x == CHOOSE y \in S : TRUE IN f[x] + SumOver(f, S \ {x})

numPixelsOf(buf) == SumOver(buf, DOMAIN buf)

Whole(v) == [w |-> v, r |-> 0, d |-> 1]
ValLess(x, y) == x.w < y.w \/ (x.w = y.w /\ x.r * y.d < y.r * x.d)
ValLeq(x, y) == ~ValLess(y, x)

\* <<q, r>> with a * n = q * b + r and 0 <= r < b, for 0 <= a <= b and n >= 0,
\* without forming the product a * n.
RECURSIVE MulDivRem(_, _, _)
MulDivRem(a, n, b) ==
    IF n = 0 THEN <<0, 0>>
    ELSE LET h  == MulDivRem(a, n \div 2, b)
             r2 == 2 * h[2]
             q1 == 2 * h[1] + (IF r2 >= b THEN 1 ELSE 0)
             r1 == IF r2 >= b THEN r2 - b ELSE r2
             r3 == r1 + (IF n % 2 = 1 THEN a ELSE 0)
         IN  IF r3 >= b THEN <<q1 + 1, r3 - b>> ELSE <<q1, r3>>

\* 0.01f, in thousandths.
bucketSize == 10
\* 1 / maxOutliersRatio: maxOutliersRatio is 0.001f.
maxOutliersRatioInv == 1000
maxNumBuckets == 10000

\* avifRoundf(num / den) for num >= 0, den > 0: the nearest integer, halves up.
avifRoundf(num, den) == (2 * num + den) \div (2 * den)

\* ceilf(num / den) for num >= 0, den > 0.
ceilf(num, den) == (num + den - 1) \div den

AVIF_MIN(a, b) == IF a < b THEN a ELSE b
AVIF_CLAMP(x, lo, hi) == IF x < lo THEN lo ELSE IF hi < x THEN hi ELSE x

\* (int)avifRoundf((v - bucketMin) / (bucketMax - bucketMin) * numBuckets),
\* capped at numBuckets - 1.
avifValueToBucketIdx(v, bucketMin, bucketMax, numBuckets) ==
    LET vc == AVIF_CLAMP(v, bucketMin, bucketMax)
        qr == MulDivRem(vc - bucketMin, numBuckets, bucketMax - bucketMin)
        rounded == qr[1] + (IF 2 * qr[2] >= bucketMax - bucketMin THEN 1 ELSE 0)
    IN  AVIF_MIN(rounded, numBuckets - 1)

\* The bucket's end without bucketMin added.
BucketIdxToValueNoMin(idx, bucketMin, bucketMax, numBuckets) ==
    LET whole == (bucketMax - bucketMin) \div numBuckets
        qr == MulDivRem((bucketMax - bucketMin) % numBuckets, idx, numBuckets)
    IN  [w |-> whole * idx + qr[1], r |-> qr[2], d |-> numBuckets]

\* idx * (bucketMax - bucketMin) / numBuckets + bucketMin, the whole buckets
\* of the range multiplied apart from its remainder.
avifBucketIdxToValue(idx, bucketMin, bucketMax, numBuckets) ==
    LET whole == (bucketMax - bucketMin) \div numBuckets
        qr == MulDivRem((bucketMax - bucketMin) % numBuckets, idx, numBuckets)
    IN  [w |-> bucketMin + whole * idx + qr[1], r |-> qr[2], d |-> numBuckets]

\* (int)avifRoundf(numPixels * maxOutliersRatio / 2.0f).
maxOutliersOnEachSideOf(numPixels) == avifRoundf(numPixels, 2 * maxOutliersRatioInv)

\* The histogram the estimator fills: bucket index -> count, zero elsewhere.
HistogramOf(buf, min, max, numBuckets) ==
    LET idx == [v \in DOMAIN buf |-> avifValueToBucketIdx(v, min, max, numBuckets)]
        occupied == {idx[v] : v \in DOMAIN buf}
    IN  [i \in occupied |-> SumOver(buf, {v \in DOMAIN buf : idx[v] = i})]

(* The two scans visit every bucket in turn.  An empty bucket met before   *)
(* the break adds nothing to the count and only moves the range end, and   *)
(* of a run of empty buckets the last one visited wins; so each scan is    *)
(* evaluated here bucket by bucket over the occupied buckets, the run of   *)
(* empty buckets before each taken in one step.  Buckets 0 and             *)
(* numBuckets - 1 are occupied (by min and by max), so no run is left over.*)

\* The low-side loop from occupied bucket i on; prev is the occupied bucket
\* before it (-1 at the start), s = [outliers, range] the loop's state.
RECURSIVE LeftScan(_, _, _, _)
LeftScan(s, prev, i, c) ==
    LET \* buckets prev + 1 .. i - 1 are empty: the last sets rangeMin to the
        \* higher end of bucket i - 1
        range == IF prev + 1 < i
                 THEN avifBucketIdxToValue(i, c.min, c.max, c.numBuckets)
                 ELSE s.range
        leftOutliers == s.outliers + c.histogram[i]
        later == {k \in DOMAIN c.histogram : k > i}
    IN  IF leftOutliers > c.maxOutliersOnEachSide \/ later = {}
        THEN [outliers |-> leftOutliers, range |-> range]
        ELSE LeftScan([outliers |-> leftOutliers, range |-> range], i, SetMin(later), c)

\* The high-side loop taking the higher end of each empty bucket, as the
\* low-side loop does.
RECURSIVE RightScanHigherEnd(_, _, _, _)
RightScanHigherEnd(s, prev, i, c) ==
    LET range == IF i + 1 < prev
                 THEN avifBucketIdxToValue(i + 2, c.min, c.max, c.numBuckets)
                 ELSE s.range
        rightOutliers == s.outliers + c.histogram[i]
        earlier == {k \in DOMAIN c.histogram : k < i}
    IN  IF rightOutliers > c.maxOutliersOnEachSide \/ earlier = {}
        THEN [outliers |-> rightOutliers, range |-> range]
        ELSE RightScanHigherEnd([outliers |-> rightOutliers, range |-> range],
                                i, SetMax(earlier), c)

\* The high-side loop from occupied bucket i down; prev is the occupied
\* bucket above it (numBuckets at the start).
RECURSIVE RightScan(_, _, _, _)
RightScan(s, prev, i, c) ==
    LET \* buckets prev - 1 .. i + 1 are empty: the last sets rangeMax to the
        \* lower end of bucket i + 1
        range == IF i + 1 < prev
                 THEN avifBucketIdxToValue(i + 1, c.min, c.max, c.numBuckets)
                 ELSE s.range
        rightOutliers == s.outliers + c.histogram[i]
        earlier == {k \in DOMAIN c.histogram : k < i}
    IN  IF rightOutliers > c.maxOutliersOnEachSide \/ earlier = {}
        THEN [outliers |-> rightOutliers, range |-> range]
        ELSE RightScan([outliers |-> rightOutliers, range |-> range], i, SetMax(earlier), c)

\* avifFindMinMaxWithoutOutliers on buffer buf; allocOk: avifAlloc of the
\* histogram succeeds.  [res, rangeMin, rangeMax].
avifFindMinMaxWithoutOutliers(buf, allocOk) ==
    LET numPixels == numPixelsOf(buf)
        maxOutliersOnEachSide == maxOutliersOnEachSideOf(numPixels)
        min == SetMin(DOMAIN buf)
        max == SetMax(DOMAIN buf)
        raw == [res |-> AVIF_RESULT_OK, rangeMin |-> Whole(min), rangeMax |-> Whole(max)]
    IN  IF (max - min) <= bucketSize * 2 \/ maxOutliersOnEachSide = 0
        THEN raw
        ELSE IF ~allocOk
        THEN [raw EXCEPT !.res = AVIF_RESULT_OUT_OF_MEMORY]
        ELSE
        LET numBuckets == AVIF_MIN(ceilf(max - min, bucketSize), maxNumBuckets)
            c == [histogram |-> HistogramOf(buf, min, max, numBuckets),
                  min |-> min, max |-> max, numBuckets |-> numBuckets,
                  maxOutliersOnEachSide |-> maxOutliersOnEachSide]
            left == LeftScan([outliers |-> 0, range |-> Whole(min)],
                             -1, SetMin(DOMAIN c.histogram), c)
            right == RightScan([outliers |-> 0, range |-> Whole(max)],
                               numBuckets, SetMax(DOMAIN c.histogram), c)
        IN  [res |-> AVIF_RESULT_OK, rangeMin |-> left.range, rangeMax |-> right.range]

----------------------------------------------------------------------------
(* The calls of avifFindMinMaxWithoutOutliers *)

\* 1.0f, in thousandths.
One == 100 * bucketSize

\* How many equal values make the bulk of a buffer, and how many strays a
\* buffer holds of each other value at most.
BulkCount == 1000
MaxStray == 2

\* Values around the edges of the 0.01-wide buckets of a range of 1.0, and one
\* far value that makes the range exceed maxNumBuckets buckets.
BufferValues == {-500, 0, 4, 16, 996, 1000}
FarValue == 300 * One

Counts == (0 .. MaxStray) \cup {BulkCount}

BagOf(f) == [v \in {x \in DOMAIN f : f[x] > 0} |-> f[v]]

SmallBuffers ==
    {BagOf(f) : f \in {g \in [BufferValues -> Counts] : \E v \in BufferValues : g[v] > 0}}

\* Buffers with one stray far above and the rest within [0, 1].
FarBuffers ==
    {BagOf([v \in {0, 16, 500, FarValue} |->
              IF v = FarValue THEN 1 ELSE IF v = 0 THEN n0 ELSE IF v = 16 THEN n1 ELSE n2]) :
        n0 \in Counts, n1 \in Counts, n2 \in Counts}

\* The buffers of the outlier-rejection scenario: SpreadCount values spread
\* evenly over [0, 1] on m distinct values, and one value of 1e6.
SpreadCount == 10000
OutlierValue == 1000000 * One
SpreadShapes == {2, 3, 5, 11, 21}

SpreadBuffer(m) ==
    LET at(j) == (j * One) \div (m - 1)
        vals == {at(j) : j \in 0 .. m - 1}
    IN  [v \in vals \cup {OutlierValue} |->
            IF v = OutlierValue THEN 1
            ELSE (SpreadCount \div m) + (IF v = 0 THEN SpreadCount % m ELSE 0)]

SpreadBuffers == {SpreadBuffer(m) : m \in SpreadShapes}

NoRange == [w |-> 0, r |-> 0, d |-> 0]

InitRange ==
    /\ op = "findMinMax"
    /\ \E buf \in SmallBuffers \cup FarBuffers \cup SpreadBuffers :
          args = [gainMapF |-> buf]
    /\ gainMap = EncodingDefaults
    /\ out = [rangeMin |-> NoRange, rangeMax |-> NoRange]
    /\ heap = NoHeap
    /\ diag = ""
    /\ result = Pending

\* A call of avifFindMinMaxWithoutOutliers(gainMapF, numPixels, &rangeMin, &rangeMax).
FindMinMax ==
    /\ op = "findMinMax"
    /\ result = Pending
    /\ \E allocOk \in BOOLEAN :
          LET r == avifFindMinMaxWithoutOutliers(args.gainMapF, allocOk)
          IN  /\ result' = r.res
              /\ out' = [rangeMin |-> r.rangeMin, rangeMax |-> r.rangeMax]
    /\ UNCHANGED <<op, args, gainMap, heap, diag>>

NextRange == FindMinMax

SpecRange == InitRange /\ [][NextRange]_vars

----------------------------------------------------------------------------
(* Apply *)

(* Pointers.  Every object of a call is a record; args.nulls names the     *)
(* pointers that are NULL.  Dereferencing a NULL pointer is undefined      *)
(* behaviour: the call then ends with any of UBOutcomes.                   *)
IsNull(a, ptr) == ptr \in a.nulls

UB == "UB"
CRASH == "CRASH"
AVIF_RESULT_REFORMAT_FAILED == "REFORMAT_FAILED"
Results == {AVIF_RESULT_OK, AVIF_RESULT_INVALID_ARGUMENT, AVIF_RESULT_NOT_IMPLEMENTED,
            AVIF_RESULT_OUT_OF_MEMORY, AVIF_RESULT_REFORMAT_FAILED,
            AVIF_RESULT_UNKNOWN_ERROR}
UBOutcomes == Results \cup {CRASH}

(* Collaborators.  env.fail names the one collaborator call that fails in  *)
(* this run of the operation ("none": all succeed); every failure ends the *)
(* operation, so one is all a run can meet.  FailureResult is the error    *)
(* the failing collaborator returns.                                       *)
FailureResult(f) ==
    CASE f \in {"allocToneMapped", "allocRgbGainMap", "allocBaseRgb", "allocAltRgb",
                "allocGainMapF0", "allocGainMapF1", "allocGainMapF2",
                "allocHistogram", "allocPlanes", "allocGainMapRGB", "rwDataSet"}
            -> AVIF_RESULT_OUT_OF_MEMORY
      [] f \in {"gainMapYuvToRgb", "baseYuvToRgb", "altYuvToRgb", "rgbToYuv"}
            -> AVIF_RESULT_REFORMAT_FAILED
      [] f = "setViewRect" -> AVIF_RESULT_INVALID_ARGUMENT
      [] OTHER -> AVIF_RESULT_UNKNOWN_ERROR

\* Pixel contents: which buffer they are, and what they were made from.
Pix(kind, of) == [kind |-> kind, of |-> of]
NoPixels == Pix("null", "")
Uninitialized == Pix("uninitialized", "")

\* avifUnsignedFractionToFloat, avifSignedFractionToFloat: n / d, 0 when d = 0.
avifUnsignedFractionToFloat(f) == IF f.d = 0 THEN RatZero ELSE Rat(f.n, f.d)
avifSignedFractionToFloat(f) == IF f.d = 0 THEN RatZero ELSE Rat(f.n, f.d)

\* The weight without the sign of alternateHdrHeadroom - baseHdrHeadroom.
GetGainMapWeightUnsigned(hdrHeadroom, g) ==
    LET baseHdrHeadroom == avifUnsignedFractionToFloat(g.baseHdrHeadroom)
        alternateHdrHeadroom == avifUnsignedFractionToFloat(g.alternateHdrHeadroom)
    IN  IF baseHdrHeadroom = alternateHdrHeadroom
        THEN RatZero
        ELSE RatClamp(RatDiv(RatSub(hdrHeadroom, baseHdrHeadroom),
                             RatSub(alternateHdrHeadroom, baseHdrHeadroom)),
                      RatZero, RatOne)

\* The weight with the headrooms compared as raw fractions, not as floats.
GetGainMapWeightRawEqual(hdrHeadroom, g) ==
    LET baseHdrHeadroom == avifUnsignedFractionToFloat(g.baseHdrHeadroom)
        alternateHdrHeadroom == avifUnsignedFractionToFloat(g.alternateHdrHeadroom)
    IN  IF g.baseHdrHeadroom = g.alternateHdrHeadroom
        THEN RatZero
        ELSE IF baseHdrHeadroom = alternateHdrHeadroom
        THEN RatOne
        ELSE LET w == RatClamp(RatDiv(RatSub(hdrHeadroom, baseHdrHeadroom),
                                      RatSub(alternateHdrHeadroom, baseHdrHeadroom)),
                               RatZero, RatOne)
             IN  IF RatLess(alternateHdrHeadroom, baseHdrHeadroom) THEN RatNeg(w) ELSE w

\* The weight without the clamp to [0, 1].
GetGainMapWeightUnclamped(hdrHeadroom, g) ==
    LET baseHdrHeadroom == avifUnsignedFractionToFloat(g.baseHdrHeadroom)
        alternateHdrHeadroom == avifUnsignedFractionToFloat(g.alternateHdrHeadroom)
    IN  IF baseHdrHeadroom = alternateHdrHeadroom
        THEN RatZero
        ELSE LET w == RatDiv(RatSub(hdrHeadroom, baseHdrHeadroom),
                             RatSub(alternateHdrHeadroom, baseHdrHeadroom))
             IN  IF RatLess(alternateHdrHeadroom, baseHdrHeadroom) THEN RatNeg(w) ELSE w

\* avifGetGainMapWeight: a weight in [-1, 1].
avifGetGainMapWeight(hdrHeadroom, g) ==
    LET baseHdrHeadroom == avifUnsignedFractionToFloat(g.baseHdrHeadroom)
        alternateHdrHeadroom == avifUnsignedFractionToFloat(g.alternateHdrHeadroom)
    IN  IF baseHdrHeadroom = alternateHdrHeadroom
        THEN RatZero
        ELSE LET w == RatClamp(RatDiv(RatSub(hdrHeadroom, baseHdrHeadroom),
                                      RatSub(alternateHdrHeadroom, baseHdrHeadroom)),
                               RatZero, RatOne)
             IN  IF RatLess(alternateHdrHeadroom, baseHdrHeadroom) THEN RatNeg(w) ELSE w

AVIF_COLOR_PRIMARIES_UNSPECIFIED == "UNSPECIFIED"
UINT16_MAX == 65535

\* What a call of Apply leaves behind before it has done anything: `did`
\* records the steps the call went through.
NotDone == [weight |-> RatZero, path |-> "none", rescaled |-> FALSE, decoded |-> FALSE,
            nits |-> [max |-> 0, avg |-> 0]]

\* The conversion to uint16_t without the clamp.
ClliValueUnclamped(nits) == nits % (UINT16_MAX + 1)

\* (uint16_t)AVIF_CLAMP(avifRoundf(... * SDR_WHITE_NITS), 0.0f, (float)UINT16_MAX),
\* nits being the rounded value.
ClliValue(nits) == AVIF_CLAMP(nits, 0, UINT16_MAX)

\* The cleanup without avifImageDestroy(rescaledGainMap).
ApplyCleanupKeepsRescaled(r) ==
    [r EXCEPT !.heap = Free(@, "rgbGainMap")]

\* The label cleanup: of avifRGBImageApplyGainMap.
ApplyCleanup(r) ==
    [r EXCEPT !.heap = Free(Free(@, "rgbGainMap"), "rescaledGainMap")]

\* The condition of the early exit that copies the base image.
CopiesBase(weight, baseImage, a, toneMappedImage) ==
    /\ weight = RatZero
    /\ a.outputTransferCharacteristics = a.baseTransferCharacteristics
    /\ a.outputColorPrimaries = a.baseColorPrimaries
    /\ baseImage.format = toneMappedImage.format
    /\ baseImage.depth = toneMappedImage.depth
    /\ baseImage.isFloat = toneMappedImage.isFloat

\* avifRGBImageApplyGainMap from the rescaling of the gain map on: the
\* general path.  r holds the state reached so far.
ApplyGeneralPath(baseImage, a, g, env, r) ==
    IF IsNull(a, "gainMap.image")
    THEN [r EXCEPT !.res = UB]      \* gainMap->image->width
    ELSE
    LET differ == g.image.width # baseImage.width \/ g.image.height # baseImage.height
        r1 == IF differ THEN [r EXCEPT !.heap = Alloc(@, "rescaledGainMap")] ELSE r
    IN  IF differ /\ env.fail \in {"setViewRect", "scale"}
        THEN ApplyCleanup([r1 EXCEPT !.res = FailureResult(env.fail)])
        ELSE
        LET r2 == [r1 EXCEPT !.did.rescaled = differ] IN
        IF env.fail = "allocRgbGainMap"
        THEN ApplyCleanup([r2 EXCEPT !.res = FailureResult(env.fail)])
        ELSE
        LET r3 == [r2 EXCEPT !.heap = Alloc(@, "rgbGainMap")] IN
        IF env.fail = "gainMapYuvToRgb"
        THEN ApplyCleanup([r3 EXCEPT !.res = FailureResult(env.fail)])
        ELSE
        LET r4 == [r3 EXCEPT !.did.decoded = TRUE] IN
        IF env.fail = "infoGainMap"
        THEN ApplyCleanup([r4 EXCEPT !.res = AVIF_RESULT_NOT_IMPLEMENTED,
                                     !.msg = "Unsupported RGB color space"])
        ELSE
        LET r5 == [r4 EXCEPT !.tm.pixels = Pix("toneMapped", baseImage.pixels.of),
                             !.did.path = "general", !.did.nits = env.nits]
            r6 == IF IsNull(a, "clli") THEN r5
                  ELSE [r5 EXCEPT !.clli.maxCLL = ClliValue(env.nits.max),
                                  !.clli.maxPALL = ClliValue(env.nits.avg)]
        IN  ApplyCleanup(r6)

\* avifRGBImageApplyGainMap from the allocation of the output pixels on.
ApplyAllocated(baseImage, a, g, env, r0) ==
    LET useBaseColorSpace == g.useBaseColorSpace # 0
        gainMapMathPrimaries ==
            IF useBaseColorSpace \/ g.altColorPrimaries = AVIF_COLOR_PRIMARIES_UNSPECIFIED
            THEN a.baseColorPrimaries ELSE g.altColorPrimaries
        needsInputColorConversion == a.baseColorPrimaries # gainMapMathPrimaries
        needsOutputColorConversion == gainMapMathPrimaries # a.outputColorPrimaries
        sized == [r0 EXCEPT !.tm.width = baseImage.width, !.tm.height = baseImage.height]
    IN  IF env.fail = "allocToneMapped"
        THEN [sized EXCEPT !.res = FailureResult(env.fail), !.tm.pixels = NoPixels]
        ELSE
        LET weight == avifGetGainMapWeight(a.hdrHeadroom, g)
            r == [sized EXCEPT !.tm.pixels = Uninitialized, !.did.weight = weight]
        IN  IF CopiesBase(weight, baseImage, a, r.tm)
            THEN ApplyCleanup([r EXCEPT !.tm.pixels = baseImage.pixels,
                                        !.did.path = "copy"])
            ELSE IF env.fail \in {"infoBase", "infoToneMapped"}
            THEN ApplyCleanup([r EXCEPT !.res = AVIF_RESULT_NOT_IMPLEMENTED,
                                        !.msg = "Unsupported RGB color space"])
            ELSE IF weight = RatZero
            THEN IF a.baseColorPrimaries # a.outputColorPrimaries /\ env.fail = "matrix"
                 THEN ApplyCleanup([r EXCEPT !.res = AVIF_RESULT_NOT_IMPLEMENTED,
                                             !.msg = "Unsupported RGB color space conversion"])
                 ELSE ApplyCleanup([r EXCEPT
                                      !.tm.pixels = Pix("converted", baseImage.pixels.of),
                                      !.did.path = "convert"])
            ELSE IF (needsInputColorConversion \/ needsOutputColorConversion)
                    /\ env.fail = "matrix"
            THEN ApplyCleanup([r EXCEPT !.res = AVIF_RESULT_NOT_IMPLEMENTED,
                                        !.msg = "Unsupported RGB color space conversion"])
            ELSE Bind(r, LAMBDA s : ApplyGeneralPath(baseImage, a, g, env, s))

\* avifRGBImageApplyGainMap with the output image sized to the base image
\* ahead of the argument checks.
ApplyGainMapSizedFirst(baseImage, a, g, o, h, env) ==
    LET r0 == [res |-> AVIF_RESULT_OK, msg |-> "",
               tm |-> [o.toneMappedImage EXCEPT !.width = baseImage.width,
                                                !.height = baseImage.height],
               clli |-> o.clli, heap |-> h, did |-> NotDone]
    IN  IF RatLess(a.hdrHeadroom, RatZero)
        THEN [r0 EXCEPT !.res = AVIF_RESULT_INVALID_ARGUMENT,
                        !.msg = "hdrHeadroom should be >= 0, got %f"]
        ELSE IF IsNull(a, "baseImage") \/ IsNull(a, "gainMap") \/ IsNull(a, "toneMappedImage")
        THEN [r0 EXCEPT !.res = AVIF_RESULT_INVALID_ARGUMENT, !.msg = "NULL input image"]
        ELSE LET v == avifGainMapValidateMetadata(g)
             IN  IF v.res # AVIF_RESULT_OK
                 THEN [r0 EXCEPT !.res = v.res, !.msg = v.msg]
                 ELSE ApplyAllocated(baseImage, a, g, env, r0)

\* avifRGBImageApplyGainMap(baseImage, ...) called with heap h: the state it
\* returns with, [res, msg, tm, clli, heap, did].
avifRGBImageApplyGainMap(baseImage, a, g, o, h, env) ==
    LET r0 == [res |-> AVIF_RESULT_OK, msg |-> "", tm |-> o.toneMappedImage,
               clli |-> o.clli, heap |-> h, did |-> NotDone]
    IN  IF RatLess(a.hdrHeadroom, RatZero)
        THEN [r0 EXCEPT !.res = AVIF_RESULT_INVALID_ARGUMENT,
                        !.msg = "hdrHeadroom should be >= 0, got %f"]
        ELSE IF IsNull(a, "baseImage") \/ IsNull(a, "gainMap") \/ IsNull(a, "toneMappedImage")
        THEN [r0 EXCEPT !.res = AVIF_RESULT_INVALID_ARGUMENT, !.msg = "NULL input image"]
        ELSE LET v == avifGainMapValidateMetadata(g)
             IN  IF v.res # AVIF_RESULT_OK
                 THEN [r0 EXCEPT !.res = v.res, !.msg = v.msg]
                 ELSE ApplyAllocated(baseImage, a, g, env, r0)

\* avifRGBImageSetDefaults(&rgb, image) followed by avifImageYUVToRGB: the
\* RGB rendition of an avifImage.
RGBImageOf(image) ==
    [width |-> image.width, height |-> image.height, format |-> "RGBA",
     depth |-> image.depth, isFloat |-> FALSE, pixels |-> Pix("rgb", image.pixels.of)]

\* avifImageApplyGainMap.
avifImageApplyGainMap(a, g, o, h, env) ==
    LET r0 == [res |-> AVIF_RESULT_OK, msg |-> "", tm |-> o.toneMappedImage,
               clli |-> o.clli, heap |-> h, did |-> NotDone]
    IN  IF IsNull(a, "baseImage")
        THEN [r0 EXCEPT !.res = UB]      \* baseImage->icc.size
        ELSE IF a.baseImage.iccSize > 0
        THEN [r0 EXCEPT !.res = AVIF_RESULT_NOT_IMPLEMENTED,
                 !.msg = "Tone mapping for images with ICC profiles is not supported"]
        ELSE IF IsNull(a, "gainMap")
        THEN [r0 EXCEPT !.res = UB]      \* gainMap->altICC.size
        ELSE IF g.altICCSize > 0
        THEN [r0 EXCEPT !.res = AVIF_RESULT_NOT_IMPLEMENTED,
                 !.msg = "Tone mapping for images with ICC profiles is not supported"]
        ELSE IF env.fail = "allocBaseRgb"
        THEN [r0 EXCEPT !.res = FailureResult(env.fail)]
        ELSE IF env.fail = "baseYuvToRgb"
        THEN [r0 EXCEPT !.res = FailureResult(env.fail),
                        !.heap = Free(Alloc(h, "baseImageRgb"), "baseImageRgb")]
        ELSE LET a2 == [a EXCEPT !.baseColorPrimaries = a.baseImage.colorPrimaries,
                                 !.baseTransferCharacteristics =
                                        a.baseImage.transferCharacteristics,
                                 !.nulls = @ \ {"baseImage"}]
             IN  Bind(avifRGBImageApplyGainMap(RGBImageOf(a.baseImage), a2, g, o,
                                               Alloc(h, "baseImageRgb"), env),
                      LAMBDA r : IF r.res = UB THEN r
                                 ELSE [r EXCEPT !.heap = Free(@, "baseImageRgb")])

----------------------------------------------------------------------------
(* The calls of Apply *)

BasePrimaries == "BT709"
BaseTransfer == "SRGB"

\* The caller's RGB base image and its avifImage counterpart.
BaseRGBImage ==
    [width |-> 2, height |-> 2, format |-> "RGBA", depth |-> 8, isFloat |-> FALSE,
     pixels |-> Pix("rgb", "base")]
BaseImage ==
    [width |-> 2, height |-> 2, depth |-> 8, yuvFormat |-> "YUV444", iccSize |-> 0,
     colorPrimaries |-> BasePrimaries, transferCharacteristics |-> BaseTransfer,
     matrixCoefficients |-> "BT601", clli |-> [maxCLL |-> 0, maxPALL |-> 0],
     pixels |-> Pix("yuv", "base")]

\* The output image before the call: its layout is the caller's choice.
ToneMappedLayouts ==
    {[format |-> "RGBA", depth |-> 8, isFloat |-> FALSE],
     [format |-> "RGB", depth |-> 8, isFloat |-> FALSE],
     [format |-> "RGBA", depth |-> 16, isFloat |-> FALSE],
     [format |-> "RGBA", depth |-> 8, isFloat |-> TRUE]}
ToneMappedBefore(l) ==
    [width |-> 0, height |-> 0, format |-> l.format, depth |-> l.depth,
     isFloat |-> l.isFloat, pixels |-> NoPixels]

ClliBefore == [maxCLL |-> 7, maxPALL |-> 7]

GainMapImage(w, hgt, fmt) ==
    [width |-> w, height |-> hgt, depth |-> 8, yuvFormat |-> fmt,
     planes |-> Pix("yuv", "gainmap")]

\* A gain map: metadata m, the alt descriptors, the image.
GainMapOf(m, altICCSize, altPrimaries, image) ==
    [gainMapMin |-> m.gainMapMin, gainMapMax |-> m.gainMapMax,
     baseOffset |-> m.baseOffset, alternateOffset |-> m.alternateOffset,
     gainMapGamma |-> m.gainMapGamma, baseHdrHeadroom |-> m.baseHdrHeadroom,
     alternateHdrHeadroom |-> m.alternateHdrHeadroom,
     useBaseColorSpace |-> m.useBaseColorSpace,
     altICCSize |-> altICCSize, altColorPrimaries |-> altPrimaries,
     altTransferCharacteristics |-> "UNSPECIFIED", altMatrixCoefficients |-> "UNSPECIFIED",
     altDepth |-> 0, altPlaneCount |-> 0, altCLLI |-> [maxCLL |-> 0, maxPALL |-> 0],
     image |-> image]

\* Headrooms of the metadata and of the display: alternate above base, below
\* base, and equal to base as floats (the same fraction, and 1/1 against 2/2).
HeadroomPairs ==
    {<<Frac(0, 1), Frac(1, 1)>>, <<Frac(2, 1), Frac(1, 2)>>,
     <<Frac(1, 1), Frac(2, 2)>>, <<Frac(1, 1), Frac(1, 1)>>}
DisplayHeadrooms == {Rat(0, 1), Rat(1, 2), Rat(1, 1), Rat(2, 1)}

\* rgbMaxLinear and the average of the pixels' maxima, times SDR_WHITE_NITS
\* and rounded: what the tone-mapped pixels make the CLLI.
NitsChoices == {[max |-> 0, avg |-> 0], [max |-> 203, avg |-> 100],
                [max |-> 70000, avg |-> 70000]}

ApplyFailures == {"allocToneMapped", "infoBase", "infoToneMapped", "matrix",
                  "setViewRect", "scale", "allocRgbGainMap", "gainMapYuvToRgb",
                  "infoGainMap", "allocBaseRgb", "baseYuvToRgb"}
ApplyEnvs ==
    {[fail |-> f, nits |-> [max |-> 0, avg |-> 0]] : f \in ApplyFailures}
    \cup {[fail |-> "none", nits |-> n] : n \in NitsChoices}

ApplyOps == {"applyRGB", "applyImage"}
ApplyPointers == {"baseImage", "gainMap", "gainMap.image", "toneMappedImage"}

ApplyArgs(nulls, hdrHeadroom, baseIcc, outPrimaries, outTransfer) ==
    [nulls |-> nulls,
     baseImage |-> [BaseImage EXCEPT !.iccSize = baseIcc],
     baseRgbImage |-> BaseRGBImage,
     baseColorPrimaries |-> BasePrimaries,
     baseTransferCharacteristics |-> BaseTransfer,
     hdrHeadroom |-> hdrHeadroom,
     outputColorPrimaries |-> outPrimaries,
     outputTransferCharacteristics |-> outTransfer]

\* Calls that differ in what the argument checks look at: NULL pointers, a
\* negative headroom, invalid metadata, ICC profiles.
InitApplyArguments ==
    /\ op \in ApplyOps
    /\ \E p \in SUBSET ApplyPointers, c \in SUBSET {"clli"},
          hdr \in {Rat(-1, 2), Rat(0, 1), Rat(1, 1)},
          defect \in {"none", "gamma.n", "baseHdrHeadroom.d"},
          baseIcc \in {0, 4}, altIcc \in {0, 4} :
          /\ Cardinality(p) <= 1
          /\ args = ApplyArgs(p \cup c, hdr, baseIcc, BasePrimaries, BaseTransfer)
          /\ gainMap = GainMapOf(WithDefect(EncodingDefaults, defect, 0), altIcc,
                                 "BT2020", GainMapImage(2, 2, "YUV444"))
          /\ out = [toneMappedImage |-> ToneMappedBefore(CHOOSE l \in ToneMappedLayouts : l.format = "RGBA" /\ l.depth = 8 /\ ~l.isFloat), clli |-> ClliBefore,
                    did |-> NotDone]
    /\ heap = NoHeap
    /\ diag \in {"", "stale"}
    /\ result = Pending

\* Calls with valid arguments and every pointer set that differ in the path
\* Apply takes.
InitApplyPaths ==
    /\ op \in ApplyOps
    /\ \E hp \in HeadroomPairs, hdr \in DisplayHeadrooms,
          useBase \in {0, 1}, altPrimaries \in {AVIF_COLOR_PRIMARIES_UNSPECIFIED, "BT2020"},
          outPrimaries \in {BasePrimaries, "BT2020"}, outTransfer \in {BaseTransfer, "PQ"},
          l \in ToneMappedLayouts, gw \in {1, 2} :
          /\ args = ApplyArgs({}, hdr, 0, outPrimaries, outTransfer)
          /\ gainMap = GainMapOf([EncodingDefaults EXCEPT
                                     !.baseHdrHeadroom = hp[1],
                                     !.alternateHdrHeadroom = hp[2],
                                     !.useBaseColorSpace = useBase],
                                 0, altPrimaries, GainMapImage(gw, gw, "YUV444"))
          /\ out = [toneMappedImage |-> ToneMappedBefore(l), clli |-> ClliBefore,
                    did |-> NotDone]
    /\ heap = NoHeap
    /\ diag = ""
    /\ result = Pending

InitApply == InitApplyArguments \/ InitApplyPaths

\* The call returns with the state r of the function's end; a call that
\* dereferenced NULL ends with any outcome.
Return(r) ==
    /\ IF r.res = UB THEN result' \in UBOutcomes ELSE result' = r.res
    /\ diag' = r.msg
    /\ heap' = r.heap

\* A call of avifRGBImageApplyGainMap.
ApplyRGB ==
    /\ op = "applyRGB"
    /\ result = Pending
    /\ \E env \in ApplyEnvs :
          \E r \in {avifRGBImageApplyGainMap(args.baseRgbImage, args, gainMap, out, heap, env)} :
              /\ Return(r)
              /\ out' = [toneMappedImage |-> r.tm, clli |-> r.clli, did |-> r.did]
    /\ UNCHANGED <<op, args, gainMap>>

\* A call of avifImageApplyGainMap.
ApplyImage ==
    /\ op = "applyImage"
    /\ result = Pending
    /\ \E env \in ApplyEnvs :
          \E r \in {avifImageApplyGainMap(args, gainMap, out, heap, env)} :
              /\ Return(r)
              /\ out' = [toneMappedImage |-> r.tm, clli |-> r.clli, did |-> r.did]
    /\ UNCHANGED <<op, args, gainMap>>

NextApply == ApplyRGB \/ ApplyImage

SpecApply == InitApply /\ [][NextApply]_vars

----------------------------------------------------------------------------
(* Compute *)

\* A 3x3 matrix of coefficients in thousandths, from its rows.
Coeffs(rows) == [i \in Channels |-> [j \in Channels |-> rows[i + 1][j + 1]]]

IdentityCoeffs == Coeffs(<<<<One, 0, 0>>, <<0, One, 0>>, <<0, 0, One>>>>)
BT709ToBT2020Coeffs ==
    Coeffs(<<<<627, 329, 43>>, <<69, 920, 11>>, <<16, 88, 896>>>>)
BT2020ToBT709Coeffs ==
    Coeffs(<<<<1660, -588, -73>>, <<-125, 1133, -8>>, <<-18, -101, 1119>>>>)

\* BT601 and SMPTE240 name the same chromaticities.
SameChromaticities(p, q) == p = q \/ {p, q} = {"BT601", "SMPTE240"}

\* avifColorPrimariesComputeRGBToRGBMatrix(src, dst, coeffs): [ok, coeffs].
avifColorPrimariesComputeRGBToRGBMatrix(src, dst, env) ==
    IF env.fail = "matrix" THEN [ok |-> FALSE, coeffs |-> IdentityCoeffs]
    ELSE [ok |-> TRUE,
          coeffs |-> CASE SameChromaticities(src, dst) -> IdentityCoeffs
                       [] src = "BT709" /\ dst = "BT2020" -> BT709ToBT2020Coeffs
                       [] src = "BT2020" /\ dst = "BT709" -> BT2020ToBT709Coeffs]

\* avifLinearRGBConvertColorSpace(rgba, coeffs): the converted r, g, b.
avifLinearRGBConvertColorSpace(rgba, coeffs) ==
    [i \in Channels |->
        (coeffs[i][0] * rgba[0] + coeffs[i][1] * rgba[1] + coeffs[i][2] * rgba[2]) \div One]

\* The least channel value that pure red, green and blue take once converted
\* with coeffs, and at most 0 (lines 502-517).
PureColorsChannelMin(coeffs) ==
    SetMin({0} \cup {avifLinearRGBConvertColorSpace(
                        [j \in Channels |-> IF j = c THEN One ELSE 0], coeffs)[i] :
                     c \in Channels, i \in Channels})

\* gainMapMathColorSpace before avifChooseColorSpaceForGainMapMath writes it.
Unwritten == "unwritten"

\* The choice with the alternate primaries taken on a tie.
ChooseColorSpaceAltOnTie(basePrimaries, altPrimaries, baseToAlt, altToBase) ==
    IF basePrimaries = altPrimaries
    THEN [res |-> AVIF_RESULT_OK, primaries |-> basePrimaries]
    ELSE IF ~baseToAlt.ok \/ ~altToBase.ok
    THEN [res |-> AVIF_RESULT_NOT_IMPLEMENTED, primaries |-> Unwritten]
    ELSE LET baseColorspaceChannelMin == PureColorsChannelMin(altToBase.coeffs)
             altColorspaceChannelMin == PureColorsChannelMin(baseToAlt.coeffs)
         IN  [res |-> AVIF_RESULT_OK,
              primaries |-> IF altColorspaceChannelMin < baseColorspaceChannelMin
                            THEN basePrimaries ELSE altPrimaries]

\* avifChooseColorSpaceForGainMapMath: [res, primaries], given what
\* avifColorPrimariesComputeRGBToRGBMatrix returns for the two directions.
avifChooseColorSpaceForGainMapMath(basePrimaries, altPrimaries, baseToAlt, altToBase) ==
    IF basePrimaries = altPrimaries
    THEN [res |-> AVIF_RESULT_OK, primaries |-> basePrimaries]
    ELSE IF ~baseToAlt.ok \/ ~altToBase.ok
    THEN [res |-> AVIF_RESULT_NOT_IMPLEMENTED, primaries |-> Unwritten]
    ELSE LET baseColorspaceChannelMin == PureColorsChannelMin(altToBase.coeffs)
             altColorspaceChannelMin == PureColorsChannelMin(baseToAlt.coeffs)
         IN  [res |-> AVIF_RESULT_OK,
              primaries |-> IF altColorspaceChannelMin <= baseColorspaceChannelMin
                            THEN basePrimaries ELSE altPrimaries]

\* The call of avifChooseColorSpaceForGainMapMath a call of Compute made:
\* NotChosen before it.
NotChosen == [called |-> FALSE]

\* avifDoubleToUnsignedFraction: fails on a negative value, else the fraction.
avifDoubleToUnsignedFraction(v) ==
    IF RatLess(v, RatZero) THEN [ok |-> FALSE, f |-> Frac(0, 1)]
    ELSE [ok |-> TRUE, f |-> Frac(v.n, v.d)]

\* avifDoubleToSignedFraction of a value the fraction holds exactly.
avifDoubleToSignedFraction(v) == Frac(v.n, v.d)

\* A value of the estimator (thousandths, mixed number) as a rational.
MixedToRat(m) == Rat(m.w * m.d + m.r, One * m.d)

RatMin(a, b) == IF RatLess(b, a) THEN b ELSE a

KeepBuffer(buf) == buf

\* gainMapF[c][...] *= -1.f over a whole buffer.
NegateBuffer(buf) == [v \in {-x : x \in DOMAIN buf} |-> buf[-v]]

maxOffset == Rat(1, 10)

\* The widening without the cap at maxOffset.
WidenedOffsetUncapped(offset, channelMin) ==
    IF RatLess(channelMin, RatZero) THEN RatSub(offset, channelMin) ELSE offset

\* The offset a channel gets from the least converted channel value
\* (lines 641-648; kEpsilon is below every negative value drawn here).
WidenedOffset(offset, channelMin) ==
    IF RatLess(channelMin, RatZero)
    THEN RatMin(RatSub(offset, channelMin), maxOffset)
    ELSE offset

\* gainMapF before any value is stored in it.
NoBuffers == [c \in {} |-> 0]

GainMapFBuffers(numGainMapChannels) ==
    IF numGainMapChannels = 1 THEN {"gainMapF0"}
    ELSE {"gainMapF0", "gainMapF1", "gainMapF2"}

RECURSIVE FreeAll(_, _)
FreeAll(h, S) ==
    IF S = {} THEN h
    ELSE LET x == CHOOSE y \in S : TRUE IN FreeAll(Free(h, x), S \ {x})

RECURSIVE AllocAll(_, _)
AllocAll(h, S) ==
    IF S = {} THEN h
    ELSE LET x == CHOOSE y \in S : TRUE IN AllocAll(Alloc(h, x), S \ {x})

\* The label cleanup: of avifRGBImageComputeGainMap.
ComputeCleanup(r) ==
    [r EXCEPT !.heap = FreeAll(@, {"gainMapF0", "gainMapF1", "gainMapF2", "gainMapRGB"}),
              !.g.image.planes = IF r.res # AVIF_RESULT_OK THEN NoPixels ELSE @]

\* avifRGBImageComputeGainMap from line 768 on: the gain map as YUV.
ComputeToYuv(baseRgbImage, env, r) ==
    LET requestedWidth == r.g.image.width
        requestedHeight == r.g.image.height
        r1 == [r EXCEPT !.g.image.width = baseRgbImage.width,
                        !.g.image.height = baseRgbImage.height,
                        !.g.image.planes = NoPixels]
    IN  IF env.fail = "allocPlanes"
        THEN ComputeCleanup([r1 EXCEPT !.res = FailureResult(env.fail)])
        ELSE
        LET r2 == [r1 EXCEPT !.g.image.planes = Uninitialized] IN
        IF env.fail = "allocGainMapRGB"
        THEN ComputeCleanup([r2 EXCEPT !.res = FailureResult(env.fail)])
        ELSE
        LET r3 == [r2 EXCEPT !.heap = Alloc(@, "gainMapRGB")] IN
        IF env.fail = "infoGainMapRGB"
        THEN [r3 EXCEPT !.res = AVIF_RESULT_NOT_IMPLEMENTED,      \* return, line 789
                        !.msg = "Unsupported RGB color space"]
        ELSE IF env.fail = "rgbToYuv"
        THEN ComputeCleanup([r3 EXCEPT !.res = FailureResult(env.fail)])
        ELSE
        LET r4 == [r3 EXCEPT !.g.image.planes = Pix("yuv", "gainmap")] IN
        IF requestedWidth # r4.g.image.width \/ requestedHeight # r4.g.image.height
        THEN IF env.fail = "scale"
             THEN [r4 EXCEPT !.res = FailureResult(env.fail),     \* AVIF_CHECKRES, line 810
                             !.msg = "avifImageScale failed"]
             ELSE ComputeCleanup([r4 EXCEPT !.g.image.width = requestedWidth,
                                            !.g.image.height = requestedHeight])
        ELSE ComputeCleanup(r4)

\* avifRGBImageComputeGainMap from line 699 on: headrooms, sign, range,
\* metadata.  offsets holds baseOffset and alternateOffset as floats.
ComputeMetadata(baseRgbImage, a, env, numGainMapChannels, offsets, r) ==
    LET baseHeadroom == a.manualBaseHdrHeadroom
        alternateHeadroom == a.manualAlternateHdrHeadroom
        bh == avifDoubleToUnsignedFraction(baseHeadroom)
        ah == avifDoubleToUnsignedFraction(alternateHeadroom)
    IN  IF ~bh.ok
        THEN ComputeCleanup([r EXCEPT !.res = AVIF_RESULT_INVALID_ARGUMENT])
        ELSE IF ~ah.ok
        THEN ComputeCleanup([r EXCEPT !.res = AVIF_RESULT_INVALID_ARGUMENT,
                                      !.g.baseHdrHeadroom = bh.f])
        ELSE
        LET singleChannel == numGainMapChannels = 1
            gainMapF == [c \in 0 .. numGainMapChannels - 1 |->
                            IF RatLess(alternateHeadroom, baseHeadroom)
                            THEN NegateBuffer(a.ratioLog2[c]) ELSE a.ratioLog2[c]]
            r1 == [r EXCEPT !.g.baseHdrHeadroom = bh.f, !.g.alternateHdrHeadroom = ah.f,
                            !.gainMapF = gainMapF]
        IN  Bind([c \in 0 .. numGainMapChannels - 1 |->
                    avifFindMinMaxWithoutOutliers(gainMapF[c], env.fail # "allocHistogram")],
                 LAMBDA range :
            IF range[0].res # AVIF_RESULT_OK
            THEN ComputeCleanup([r1 EXCEPT !.res = range[0].res])
            ELSE IF env.fail = "doubleToSignedFraction"
            THEN ComputeCleanup([r1 EXCEPT !.res = AVIF_RESULT_INVALID_ARGUMENT])
            ELSE
            LET gainMapMinLog2 == [c \in Channels |->
                    IF c < numGainMapChannels THEN MixedToRat(range[c].rangeMin)
                    ELSE RatZero]
                gainMapMaxLog2 == [c \in Channels |->
                    IF c < numGainMapChannels THEN MixedToRat(range[c].rangeMax)
                    ELSE RatZero]
                r2 == [r1 EXCEPT
                    !.g.gainMapMin = [c \in Channels |->
                        avifDoubleToSignedFraction(
                            gainMapMinLog2[IF singleChannel THEN 0 ELSE c])],
                    !.g.gainMapMax = [c \in Channels |->
                        avifDoubleToSignedFraction(
                            gainMapMaxLog2[IF singleChannel THEN 0 ELSE c])],
                    !.g.alternateOffset = [c \in Channels |->
                        avifDoubleToSignedFraction(offsets.alternateOffset[c])],
                    !.g.baseOffset = [c \in Channels |->
                        avifDoubleToSignedFraction(offsets.baseOffset[c])]]
            IN  Bind(r2, LAMBDA s : ComputeToYuv(baseRgbImage, env, s)))

\* avifRGBImageComputeGainMap from line 557 on: the scratch buffers, the
\* defaults, the offsets.
ComputeAllocated(baseRgbImage, baseColorPrimaries, altColorPrimaries, gainMapMathPrimaries, a, env, r0) ==
    LET colorSpacesDiffer == baseColorPrimaries # altColorPrimaries
        singleChannel == r0.g.image.yuvFormat = "YUV400"
        numGainMapChannels == IF singleChannel THEN 1 ELSE 3
        failedAt == CASE env.fail = "allocGainMapF0" -> 0
                      [] env.fail = "allocGainMapF1" -> 1
                      [] env.fail = "allocGainMapF2" -> 2
                      [] OTHER -> 3
    IN  IF failedAt < numGainMapChannels
        THEN ComputeCleanup(
                [r0 EXCEPT !.res = AVIF_RESULT_OUT_OF_MEMORY,
                           !.heap = AllocAll(@, {b \in GainMapFBuffers(numGainMapChannels) :
                                                   \/ b = "gainMapF0" /\ failedAt > 0
                                                   \/ b = "gainMapF1" /\ failedAt > 1})])
        ELSE
        LET r1 == [r0 EXCEPT !.heap = AllocAll(@, GainMapFBuffers(numGainMapChannels)),
                             !.g = [avifGainMapSetEncodingDefaults(@) EXCEPT
                                      !.useBaseColorSpace =
                                          IF gainMapMathPrimaries = baseColorPrimaries
                                          THEN 1 ELSE 0]]
            useBaseColorSpace == r1.g.useBaseColorSpace # 0
        IN  IF colorSpacesDiffer /\ env.fail = "matrix"
            THEN ComputeCleanup([r1 EXCEPT !.res = AVIF_RESULT_NOT_IMPLEMENTED,
                                           !.msg = "Unsupported RGB color space conversion"])
            ELSE
            LET baseOffset0 == [c \in Channels |->
                                  avifSignedFractionToFloat(r1.g.baseOffset[c])]
                alternateOffset0 == [c \in Channels |->
                                  avifSignedFractionToFloat(r1.g.alternateOffset[c])]
                channelMin == IF useBaseColorSpace THEN a.altChannelMin
                              ELSE a.baseChannelMin
                offsets ==
                    IF ~colorSpacesDiffer
                    THEN [baseOffset |-> baseOffset0, alternateOffset |-> alternateOffset0]
                    ELSE IF useBaseColorSpace
                    THEN [baseOffset |-> baseOffset0,
                          alternateOffset |-> [c \in Channels |->
                              WidenedOffset(alternateOffset0[c], channelMin[c])]]
                    ELSE [baseOffset |-> [c \in Channels |->
                              WidenedOffset(baseOffset0[c], channelMin[c])],
                          alternateOffset |-> alternateOffset0]
            IN  Bind(r1, LAMBDA s : ComputeMetadata(baseRgbImage, a, env,
                                                    numGainMapChannels, offsets, s))

YuvFormats == {"YUV444", "YUV422", "YUV420", "YUV400"}

\* avifRGBImageComputeGainMap called with heap h: the state it returns with,
\* [res, msg, g, heap].
avifRGBImageComputeGainMap(baseRgbImage, baseColorPrimaries, altRgbImage, altColorPrimaries, a, g, h, env) ==
    LET r0 == [res |-> AVIF_RESULT_OK, msg |-> "", g |-> g, heap |-> h,
               gainMapF |-> NoBuffers, math |-> NotChosen]
    IN  IF IsNull(a, "baseImage") \/ IsNull(a, "altImage") \/ IsNull(a, "gainMap")
           \/ IsNull(a, "gainMap.image")
        THEN [r0 EXCEPT !.res = AVIF_RESULT_INVALID_ARGUMENT]
        ELSE IF baseRgbImage.width # altRgbImage.width
                \/ baseRgbImage.height # altRgbImage.height
        THEN [r0 EXCEPT !.res = AVIF_RESULT_INVALID_ARGUMENT,
                        !.msg = "Both images should have the same dimensions"]
        ELSE IF g.image.width = 0 \/ g.image.height = 0 \/ g.image.depth = 0
                \/ g.image.yuvFormat \notin YuvFormats
        THEN [r0 EXCEPT !.res = AVIF_RESULT_INVALID_ARGUMENT,
                        !.msg = "gainMap->image should be non null with desired width, height, depth and yuvFormat set"]
        ELSE LET baseToAlt == avifColorPrimariesComputeRGBToRGBMatrix(
                                    baseColorPrimaries, altColorPrimaries, env)
                 altToBase == avifColorPrimariesComputeRGBToRGBMatrix(
                                    altColorPrimaries, baseColorPrimaries, env)
                 chosen == avifChooseColorSpaceForGainMapMath(
                                    baseColorPrimaries, altColorPrimaries, baseToAlt, altToBase)
                 r1 == [r0 EXCEPT !.math = [called |-> TRUE, baseToAlt |-> baseToAlt,
                                            altToBase |-> altToBase, res |-> chosen.res,
                                            gainMapMathColorSpace |-> chosen.primaries]]
             IN  IF chosen.res # AVIF_RESULT_OK
                 THEN [r1 EXCEPT !.res = chosen.res]
                 ELSE IF env.fail \in {"infoBase", "infoAlt"}
                 THEN [r1 EXCEPT !.res = AVIF_RESULT_NOT_IMPLEMENTED,
                                 !.msg = "Unsupported RGB color space"]
                 ELSE ComputeAllocated(baseRgbImage, baseColorPrimaries, altColorPrimaries,
                                       chosen.primaries, a, env, r1)

\* The label cleanup: of avifImageComputeGainMap.
ImageComputeCleanup(r) ==
    [r EXCEPT !.heap = Free(Free(@, "baseImageRgb"), "altImageRgb")]

\* avifImageComputeGainMap.
avifImageComputeGainMap(a, g, h, env) ==
    LET r0 == [res |-> AVIF_RESULT_OK, msg |-> "", g |-> g, heap |-> h,
               gainMapF |-> NoBuffers, math |-> NotChosen]
    IN  IF IsNull(a, "baseImage") \/ IsNull(a, "altImage") \/ IsNull(a, "gainMap")
        THEN [r0 EXCEPT !.res = AVIF_RESULT_INVALID_ARGUMENT]
        ELSE IF a.baseImage.iccSize > 0 \/ a.altImage.iccSize > 0
        THEN [r0 EXCEPT !.res = AVIF_RESULT_NOT_IMPLEMENTED,
                 !.msg = "Computing gain maps for images with ICC profiles is not supported"]
        ELSE IF a.baseImage.width # a.altImage.width
                \/ a.baseImage.height # a.altImage.height
        THEN [r0 EXCEPT !.res = AVIF_RESULT_INVALID_ARGUMENT,
                        !.msg = "Image dimensions don't match, got %dx%d and %dx%d"]
        ELSE IF env.fail = "allocBaseRgb"
        THEN [r0 EXCEPT !.res = FailureResult(env.fail)]
        ELSE
        LET r1 == [r0 EXCEPT !.heap = Alloc(@, "baseImageRgb")] IN
        IF env.fail \in {"baseYuvToRgb", "allocAltRgb"}
        THEN ImageComputeCleanup([r1 EXCEPT !.res = FailureResult(env.fail)])
        ELSE
        LET r2 == [r1 EXCEPT !.heap = Alloc(@, "altImageRgb")] IN
        IF env.fail = "altYuvToRgb"
        THEN ImageComputeCleanup([r2 EXCEPT !.res = FailureResult(env.fail)])
        ELSE
        Bind(avifRGBImageComputeGainMap(RGBImageOf(a.baseImage),
                                        a.baseImage.colorPrimaries,
                                        RGBImageOf(a.altImage),
                                        a.altImage.colorPrimaries,
                                        a, g, r2.heap, env),
             LAMBDA r3 :
            IF r3.res # AVIF_RESULT_OK
            THEN ImageComputeCleanup(r3)
            ELSE IF env.fail = "rwDataSet"
            THEN [r3 EXCEPT !.res = FailureResult(env.fail)]     \* AVIF_CHECKRES, line 882
            ELSE ImageComputeCleanup(
                    [r3 EXCEPT !.g.altICCSize = a.altImage.iccSize,
                               !.g.altColorPrimaries = a.altImage.colorPrimaries,
                               !.g.altTransferCharacteristics =
                                    a.altImage.transferCharacteristics,
                               !.g.altMatrixCoefficients = a.altImage.matrixCoefficients,
                               !.g.altDepth = a.altImage.depth,
                               !.g.altPlaneCount =
                                    IF a.altImage.yuvFormat = "YUV400" THEN 1 ELSE 3,
                               !.g.altCLLI = a.altImage.clli]))

----------------------------------------------------------------------------
(* The calls of Compute *)

\* Metadata a decoder could have left in the gain map before the call.
DecodedMetadata ==
    [gainMapMin           |-> [c \in Channels |-> Frac(0, 1)],
     gainMapMax           |-> [c \in Channels |-> Frac(2, 1)],
     baseOffset           |-> [c \in Channels |-> Frac(1, 32)],
     alternateOffset      |-> [c \in Channels |-> Frac(1, 32)],
     gainMapGamma         |-> [c \in Channels |-> Frac(2, 1)],
     baseHdrHeadroom      |-> Frac(1, 1),
     alternateHdrHeadroom |-> Frac(3, 1),
     useBaseColorSpace    |-> 0]

\* The gain map image as the caller requests it: width, height, depth, format.
ValidImageRequests ==
    {<<2, 2, 8, "YUV444">>, <<1, 1, 8, "YUV444">>, <<2, 2, 8, "YUV400">>}
InvalidImageRequests ==
    {<<0, 2, 8, "YUV444">>, <<2, 2, 0, "YUV444">>, <<2, 2, 8, "NONE">>}

RequestedImage(q, planes) ==
    [width |-> q[1], height |-> q[2], depth |-> q[3], yuvFormat |-> q[4],
     planes |-> planes]

\* The per-pixel log2 ratios of a 2x2 call, in thousandths: what lines
\* 652-697 compute from the pixels of the two images.
RatioBuffers ==
    {(0 :> 4), (1000 :> 4), (-1000 :> 1) @@ (0 :> 2) @@ (2000 :> 1)}

\* The ratios of the three channels: the same in each, or one buffer each.
\* A single-channel gain map only computes those of channel 0.
ChannelRatios ==
    {[c \in Channels |-> b] : b \in RatioBuffers}
    \cup {[c \in Channels |-> CASE c = 0 -> (-1000 :> 1) @@ (0 :> 2) @@ (2000 :> 1)
                                [] c = 1 -> (1000 :> 4)
                                [] c = 2 -> (0 :> 4)]}

\* The primaries of the base and of the alternate image: the same, one inside
\* the other, two names of the same chromaticities.
PrimariesPairs ==
    {<<"BT709", "BT709">>, <<"BT709", "BT2020">>, <<"BT2020", "BT709">>,
     <<"BT601", "SMPTE240">>}

\* The least channel values of the converted pixels (lines 612-635).
ChannelMins ==
    {[c \in Channels |-> RatZero], [c \in Channels |-> Rat(-1, 64)],
     [c \in Channels |-> IF c = 0 THEN Rat(-1, 1) ELSE RatZero]}

\* g_manualBaseHdrHeadroom and g_manualAlternateHdrHeadroom; -1.0 at start.
ManualHeadrooms ==
    {<<Rat(-1, 1), Rat(-1, 1)>>, <<Rat(0, 1), Rat(1, 1)>>,
     <<Rat(1, 1), Rat(0, 1)>>, <<Rat(0, 1), Rat(-1, 1)>>,
     <<Rat(1, 1), Rat(1, 1)>>}

ComputeFailures == {"matrix", "infoBase", "infoAlt", "allocGainMapF0", "allocGainMapF1",
                    "allocGainMapF2", "doubleToSignedFraction", "allocPlanes",
                    "allocGainMapRGB", "infoGainMapRGB", "rgbToYuv", "scale",
                    "allocBaseRgb", "baseYuvToRgb", "allocAltRgb", "altYuvToRgb",
                    "rwDataSet"}
ComputeEnvs == {[fail |-> f] : f \in ComputeFailures \cup {"none"}}

ComputeOps == {"computeRGB", "computeImage"}
ComputePointers == {"baseImage", "altImage", "gainMap", "gainMap.image"}

ComputeArgs(nulls, basePrimaries, altPrimaries, baseIcc, altIcc, altHeight, manual, ratioLog2, channelMin, before) ==
    [nulls |-> nulls,
     baseImage |-> [BaseImage EXCEPT !.iccSize = baseIcc,
                                     !.colorPrimaries = basePrimaries],
     altImage |-> [BaseImage EXCEPT !.iccSize = altIcc, !.height = altHeight,
                                    !.colorPrimaries = altPrimaries,
                                    !.transferCharacteristics = "PQ",
                                    !.depth = 10,
                                    !.clli = [maxCLL |-> 1000, maxPALL |-> 400],
                                    !.pixels = Pix("yuv", "alt")],
     baseRgbImage |-> BaseRGBImage,
     altRgbImage |-> [BaseRGBImage EXCEPT !.height = altHeight, !.depth = 10,
                                          !.pixels = Pix("rgb", "alt")],
     baseColorPrimaries |-> basePrimaries,
     altColorPrimaries |-> altPrimaries,
     manualBaseHdrHeadroom |-> manual[1],
     manualAlternateHdrHeadroom |-> manual[2],
     ratioLog2 |-> ratioLog2,
     baseChannelMin |-> channelMin,
     altChannelMin |-> channelMin,
     gainMapBefore |-> before]

\* Calls that differ in what the argument checks look at: NULL pointers, ICC
\* profiles, dimensions, the requested image.
InitComputeArguments ==
    /\ op \in ComputeOps
    /\ \E p \in SUBSET ComputePointers, baseIcc \in {0, 4}, altIcc \in {0, 4},
          altHeight \in {1, 2}, q \in ValidImageRequests \cup InvalidImageRequests :
          LET g == GainMapOf(DecodedMetadata, 0, "BT709",
                             RequestedImage(q, Pix("yuv", "old")))
          IN  /\ Cardinality(p) <= 1
              /\ gainMap = g
              /\ args = ComputeArgs(p, BasePrimaries, BasePrimaries, baseIcc, altIcc,
                                    altHeight, <<Rat(0, 1), Rat(1, 1)>>,
                                    [c \in Channels |-> (0 :> 4)],
                                    [c \in Channels |-> RatZero], g)
    /\ out = [gainMapF |-> NoBuffers, math |-> NotChosen]
    /\ heap = NoHeap
    /\ diag \in {"", "stale"}
    /\ result = Pending

\* Calls with valid arguments that differ in what Compute computes.
InitComputePaths ==
    /\ op \in ComputeOps
    /\ \E q \in ValidImageRequests, planes \in {NoPixels, Pix("yuv", "old")},
          m \in {EncodingDefaults, DecodedMetadata},
          primaries \in PrimariesPairs,
          manual \in ManualHeadrooms, ratioLog2 \in ChannelRatios,
          channelMin \in ChannelMins :
          LET g == GainMapOf(m, 0, "BT709", RequestedImage(q, planes))
          IN  /\ gainMap = g
              /\ args = ComputeArgs({}, primaries[1], primaries[2], 0, 0, 2, manual,
                                    ratioLog2, channelMin, g)
    /\ out = [gainMapF |-> NoBuffers, math |-> NotChosen]
    /\ heap = NoHeap
    /\ diag = ""
    /\ result = Pending

InitCompute == InitComputeArguments \/ InitComputePaths

\* A call of avifRGBImageComputeGainMap.
ComputeRGB ==
    /\ op = "computeRGB"
    /\ result = Pending
    /\ \E env \in ComputeEnvs :
          \E r \in {avifRGBImageComputeGainMap(args.baseRgbImage, args.baseColorPrimaries,
                                                args.altRgbImage, args.altColorPrimaries,
                                                args, gainMap, heap, env)} :
              /\ Return(r)
              /\ gainMap' = r.g
              /\ out' = [gainMapF |-> r.gainMapF, math |-> r.math]
    /\ UNCHANGED <<op, args>>

\* A call of avifImageComputeGainMap.
ComputeImage ==
    /\ op = "computeImage"
    /\ result = Pending
    /\ \E env \in ComputeEnvs :
          \E r \in {avifImageComputeGainMap(args, gainMap, heap, env)} :
              /\ Return(r)
              /\ gainMap' = r.g
              /\ out' = [gainMapF |-> r.gainMapF, math |-> r.math]
    /\ UNCHANGED <<op, args>>

NextCompute == ComputeRGB \/ ComputeImage

SpecCompute == InitCompute /\ [][NextCompute]_vars

----------------------------------------------------------------------------
(* The calls of avifGetGainMapWeight *)

MaxHeadroom == 3

\* Headroom fractions with small numerators and denominators, 0 included.
HeadroomFractions == {Frac(n, d) : n \in 0 .. MaxHeadroom, d \in 0 .. MaxHeadroom}
\* The display headrooms these fractions can name.
HeadroomValues == {Rat(n, d) : n \in 0 .. MaxHeadroom, d \in 1 .. MaxHeadroom}

InitWeight ==
    /\ op = "weight"
    /\ \E hdrHeadroom \in HeadroomValues : args = [hdrHeadroom |-> hdrHeadroom]
    /\ \E b \in HeadroomFractions, alt \in HeadroomFractions :
          gainMap = [EncodingDefaults EXCEPT !.baseHdrHeadroom = b,
                                             !.alternateHdrHeadroom = alt]
    /\ out = [weight |-> RatZero]
    /\ heap = NoHeap
    /\ diag = ""
    /\ result = Pending

\* A call of avifGetGainMapWeight(hdrHeadroom, gainMap).
GetGainMapWeight ==
    /\ op = "weight"
    /\ result = Pending
    /\ out' = [weight |-> avifGetGainMapWeight(args.hdrHeadroom, gainMap)]
    /\ result' = AVIF_RESULT_OK
    /\ UNCHANGED <<op, args, gainMap, heap, diag>>

NextWeight == GetGainMapWeight

SpecWeight == InitWeight /\ [][NextWeight]_vars

----------------------------------------------------------------------------
(* The calls of avifSameGainMapMetadata *)

\* avifSameGainMapMetadata(a, b): the numerators and the denominators of the
\* two headrooms and of the five per-channel fractions, compared one by one.
avifSameGainMapMetadata(a, b) ==
    IF \/ a.baseHdrHeadroom.n # b.baseHdrHeadroom.n
       \/ a.baseHdrHeadroom.d # b.baseHdrHeadroom.d
       \/ a.alternateHdrHeadroom.n # b.alternateHdrHeadroom.n
       \/ a.alternateHdrHeadroom.d # b.alternateHdrHeadroom.d
    THEN FALSE
    ELSE \A c \in Channels :
            ~ \/ a.gainMapMin[c].n # b.gainMapMin[c].n
              \/ a.gainMapMin[c].d # b.gainMapMin[c].d
              \/ a.gainMapMax[c].n # b.gainMapMax[c].n
              \/ a.gainMapMax[c].d # b.gainMapMax[c].d
              \/ a.gainMapGamma[c].n # b.gainMapGamma[c].n
              \/ a.gainMapGamma[c].d # b.gainMapGamma[c].d
              \/ a.baseOffset[c].n # b.baseOffset[c].n
              \/ a.baseOffset[c].d # b.baseOffset[c].d
              \/ a.alternateOffset[c].n # b.alternateOffset[c].n
              \/ a.alternateOffset[c].d # b.alternateOffset[c].d

AVIF_TRUE == "AVIF_TRUE"
AVIF_FALSE == "AVIF_FALSE"

HeadroomFields == {"baseHdrHeadroom", "alternateHdrHeadroom"}
PerChannelFields == {"gainMapMin", "gainMapMax", "gainMapGamma", "baseOffset",
                     "alternateOffset"}

\* One change of one field: the numerator or the denominator raised by one,
\* or both doubled (the same value under another raw pair); useBaseColorSpace
\* flipped; or no change at all.
NoChange == [field |-> "none", c |-> 0, part |-> "none"]
Perturbations ==
    {NoChange, [field |-> "useBaseColorSpace", c |-> 0, part |-> "flip"]}
    \cup {[field |-> f, c |-> 0, part |-> p] :
            f \in HeadroomFields, p \in {"n", "d", "doubled"}}
    \cup {[field |-> f, c |-> c, part |-> p] :
            f \in PerChannelFields, c \in Channels, p \in {"n", "d", "doubled"}}

PerturbedFraction(x, part) ==
    CASE part = "n" -> Frac(x.n + 1, x.d)
      [] part = "d" -> Frac(x.n, x.d + 1)
      [] part = "doubled" -> Frac(2 * x.n, 2 * x.d)

Perturbed(m, p) ==
    CASE p.field = "none" -> m
      [] p.field = "useBaseColorSpace" ->
            [m EXCEPT !.useBaseColorSpace = 1 - @]
      [] p.field \in HeadroomFields ->
            [m EXCEPT ![p.field] = PerturbedFraction(@, p.part)]
      [] p.field \in PerChannelFields ->
            [m EXCEPT ![p.field][p.c] = PerturbedFraction(@, p.part)]

\* Metadata to compare: the defaults, a decoded set, a set whose channels differ.
SameInputs ==
    {EncodingDefaults, DecodedMetadata,
     [DecodedMetadata EXCEPT !.gainMapMin = [c \in Channels |-> Frac(-c, 2)],
                             !.gainMapMax = [c \in Channels |-> Frac(c + 1, 2)],
                             !.baseOffset = [c \in Channels |-> Frac(c, 64)],
                             !.useBaseColorSpace = 1]}

InitSame ==
    /\ op = "sameMetadata"
    /\ gainMap \in SameInputs
    /\ \E p \in Perturbations : args = [perturbation |-> p, b |-> Perturbed(gainMap, p)]
    /\ out = NoOut
    /\ heap = NoHeap
    /\ diag = ""
    /\ result = Pending

\* A call of avifSameGainMapMetadata(gainMap, b).
SameGainMapMetadata ==
    /\ op = "sameMetadata"
    /\ result = Pending
    /\ result' = IF avifSameGainMapMetadata(gainMap, args.b) THEN AVIF_TRUE ELSE AVIF_FALSE
    /\ UNCHANGED <<op, args, gainMap, out, heap, diag>>

NextSame == SameGainMapMetadata

SpecSame == InitSame /\ [][NextSame]_vars

----------------------------------------------------------------------------
(* C1 *)

\* The four metadata invariants, stated over exact integers.
MetadataInvariants(g) ==
    /\ \A c \in Channels :
          /\ g.gainMapMin[c].d # 0 /\ g.gainMapMax[c].d # 0 /\ g.gainMapGamma[c].d # 0
          /\ g.baseOffset[c].d # 0 /\ g.alternateOffset[c].d # 0
    /\ g.baseHdrHeadroom.d # 0 /\ g.alternateHdrHeadroom.d # 0
    /\ \A c \in Channels : ~RatLess(g.gainMapMax[c], g.gainMapMin[c])
    /\ \A c \in Channels : g.gainMapGamma[c].n # 0
    /\ g.useBaseColorSpace \in {0, 1}

\* C1: avifGainMapValidateMetadata returns OK exactly when every denominator
\* is non-zero, gainMapMax >= gainMapMin as exact rationals on every channel,
\* every gamma numerator is non-zero and useBaseColorSpace is 0 or 1, and
\* returns InvalidArgument otherwise; the products never leave int64_t.
C1_ValidateExact ==
    (op = "validate" /\ result # Pending) =>
        /\ result \in {AVIF_RESULT_OK, AVIF_RESULT_INVALID_ARGUMENT}
        /\ (result = AVIF_RESULT_OK) <=> MetadataInvariants(gainMap)
        /\ \A c \in Channels :
              /\ ToInt64(gainMap.gainMapMax[c].n * gainMap.gainMapMin[c].d)
                    = gainMap.gainMapMax[c].n * gainMap.gainMapMin[c].d
              /\ ToInt64(gainMap.gainMapMin[c].n * gainMap.gainMapMax[c].d)
                    = gainMap.gainMapMin[c].n * gainMap.gainMapMax[c].d

\* A call rejected only because INT32_MIN/1 < 1/UINT32_MAX on one channel:
\* the widest products the validator forms.
C1_Witness ==
    /\ op = "validate" /\ result = AVIF_RESULT_INVALID_ARGUMENT
    /\ \E c \in Channels :
          /\ gainMap.gainMapMax[c] = Frac(INT32_MIN, 1)
          /\ gainMap.gainMapMin[c] = Frac(INT32_MAX, UINT32_MAX)
    /\ \A c \in Channels :
          /\ gainMap.gainMapGamma[c] = Frac(1, 1)
          /\ gainMap.baseOffset[c].d # 0 /\ gainMap.alternateOffset[c].d # 0
    /\ gainMap.baseHdrHeadroom.d # 0 /\ gainMap.alternateHdrHeadroom.d # 0
    /\ gainMap.useBaseColorSpace = 1

----------------------------------------------------------------------------
(* C2, C3, C4 *)

Returned == result # Pending

BufferOf(a) == a.gainMapF

\* How many values of the buffer are strictly below, strictly above, x.
CountBelow(buf, x) == SumOver(buf, {v \in DOMAIN buf : ValLess(Whole(v), x)})
CountAbove(buf, x) == SumOver(buf, {v \in DOMAIN buf : ValLess(x, Whole(v))})

\* C2: for every buffer of N >= 1 values the returned range satisfies
\* min(B) <= rangeMin <= rangeMax <= max(B): the two scans never cross.
C2_RangeWithinBuffer ==
    (op = "findMinMax" /\ Returned) =>
        /\ ValLeq(Whole(SetMin(DOMAIN BufferOf(args))), out.rangeMin)
        /\ ValLeq(out.rangeMin, out.rangeMax)
        /\ ValLeq(out.rangeMax, Whole(SetMax(DOMAIN BufferOf(args))))

\* A call whose two scans both moved their end of the range inwards.
C2_Witness ==
    /\ op = "findMinMax" /\ result = AVIF_RESULT_OK
    /\ ValLess(Whole(SetMin(DOMAIN BufferOf(args))), out.rangeMin)
    /\ ValLess(out.rangeMax, Whole(SetMax(DOMAIN BufferOf(args))))
    /\ ValLess(out.rangeMin, out.rangeMax)

\* The buffers of the outlier-rejection scenario: one value of 1e6 and
\* SpreadCount values within [0, 1], some at 0 and some at 1.
OutlierScenario(buf) ==
    /\ OutlierValue \in DOMAIN buf /\ buf[OutlierValue] = 1
    /\ \A v \in DOMAIN buf \ {OutlierValue} : 0 <= v /\ v <= One
    /\ {0, One} \subseteq DOMAIN buf
    /\ numPixelsOf(buf) = SpreadCount + 1

\* C3 as stated: on 10000 values spread over [0, 1] plus one outlier of 1e6
\* the returned lower bound is about 0 and the upper bound is at most 1.
C3_UpperBoundAtMostOne ==
    (op = "findMinMax" /\ result = AVIF_RESULT_OK /\ OutlierScenario(BufferOf(args))) =>
        /\ ValLeq(Whole(-bucketSize), out.rangeMin)
        /\ ValLeq(out.rangeMin, Whole(bucketSize))
        /\ ValLeq(out.rangeMax, Whole(One))

\* C3 as amended: on that buffer the lower bound is the buffer's minimum, 0,
\* and the upper bound is the lower end of the second of the maxNumBuckets
\* buckets, min + (max - min) / 10000 = 100: the outlier is rejected, but the
\* returned maximum is a bucket edge above the largest non-outlier value.
C3_UpperBoundIsBucketEdge ==
    (op = "findMinMax" /\ result = AVIF_RESULT_OK /\ OutlierScenario(BufferOf(args))) =>
        /\ out.rangeMin = Whole(0)
        /\ out.rangeMax = [w |-> OutlierValue \div maxNumBuckets,
                           r |-> OutlierValue % maxNumBuckets, d |-> maxNumBuckets]
        /\ ValLess(Whole(One), out.rangeMax)
        /\ ValLess(out.rangeMax, Whole(OutlierValue))

C3_Witness ==
    /\ op = "findMinMax" /\ result = AVIF_RESULT_OK /\ OutlierScenario(BufferOf(args))
    /\ out.rangeMax.w = 100 * One /\ out.rangeMax.r = 0
    /\ out.rangeMin = Whole(0)

\* C4: the returned range leaves at most 0.1% of the values strictly below
\* rangeMin and at most 0.1% strictly above rangeMax.
C4_AtMostPerMilleDiscarded ==
    (op = "findMinMax" /\ result = AVIF_RESULT_OK) =>
        /\ maxOutliersRatioInv * CountBelow(BufferOf(args), out.rangeMin)
              <= numPixelsOf(BufferOf(args))
        /\ maxOutliersRatioInv * CountAbove(BufferOf(args), out.rangeMax)
              <= numPixelsOf(BufferOf(args))

----------------------------------------------------------------------------
(* C5, C6 *)

ComputeReturned == op \in ComputeOps /\ Returned

\* C5: when Compute returns, by whatever exit, every scratch buffer it
\* allocated (gainMapF, gainMapRGB, baseImageRgb, altImageRgb) has been freed,
\* and after a failure of avifRGBImageComputeGainMap past its first allocation
\* the planes of the gain map image are freed.
C5_ScratchReleasedOnEveryExit ==
    ComputeReturned =>
        /\ Live(heap) = {}
        /\ (result # AVIF_RESULT_OK /\ heap.allocated["gainMapF0"] > 0)
              => gainMap.image.planes = NoPixels

\* The caller's metadata, alternate descriptors and requested size.
CommittedFields ==
    MetadataFields \cup {"altICCSize", "altColorPrimaries", "altTransferCharacteristics",
                         "altMatrixCoefficients", "altDepth", "altPlaneCount", "altCLLI"}

\* C6: when Compute returns an error, the gain map's metadata, its alternate
\* descriptors and the width and height of its image are as before the call.
C6_NoPartialCommit ==
    (ComputeReturned /\ result # AVIF_RESULT_OK) =>
        /\ \A f \in CommittedFields : gainMap[f] = args.gainMapBefore[f]
        /\ gainMap.image.width = args.gainMapBefore.image.width
        /\ gainMap.image.height = args.gainMapBefore.image.height

----------------------------------------------------------------------------
(* C7, C8 *)

InputPointers == {"baseImage", "altImage", "gainMap", "gainMap.image", "toneMappedImage"}

\* C7: a call of applyRGB, applyImage, computeRGB or computeImage with a NULL
\* input pointer (base image, alternate image, gain map, the gain map's
\* image, output image) returns InvalidArgument.
C7_NullPointerIsInvalidArgument ==
    (op \in ApplyOps \cup ComputeOps /\ Returned /\ args.nulls \cap InputPointers # {})
        => result = AVIF_RESULT_INVALID_ARGUMENT

\* The call passes the checks made before the ICC profiles matter: no NULL
\* input pointer, hdrHeadroom >= 0, valid metadata.
ApplyArgumentsValid ==
    /\ args.nulls \cap InputPointers = {}
    /\ ~RatLess(args.hdrHeadroom, RatZero)
    /\ avifGainMapValidateMetadata(gainMap).res = AVIF_RESULT_OK

\* C8: a call of Apply on an input with an ICC profile (the base image's, at
\* image level, or the gain map's altICC, at image and at RGB level) returns
\* NotImplemented.
C8_IccIsNotImplemented ==
    (/\ op \in ApplyOps /\ Returned /\ ApplyArgumentsValid
     /\ \/ op = "applyImage" /\ args.baseImage.iccSize > 0
        \/ gainMap.altICCSize > 0)
        => result = AVIF_RESULT_NOT_IMPLEMENTED

----------------------------------------------------------------------------
(* C9 *)

\* A returned call of avifGetGainMapWeight on valid metadata whose headrooms
\* differ, with hdrHeadroom = alternateHdrHeadroom.
AtAlternateHeadroom ==
    /\ op = "weight" /\ Returned
    /\ avifGainMapValidateMetadata(gainMap).res = AVIF_RESULT_OK
    /\ avifUnsignedFractionToFloat(gainMap.baseHdrHeadroom)
          # avifUnsignedFractionToFloat(gainMap.alternateHdrHeadroom)
    /\ args.hdrHeadroom = avifUnsignedFractionToFloat(gainMap.alternateHdrHeadroom)

\* C9 as stated: with hdrHeadroom = alternateHdrHeadroom the weight is exactly
\* 1, whichever of the two headrooms is the larger.
C9_WeightOneAtAlternate ==
    AtAlternateHeadroom => out.weight = RatOne

\* C9 as amended: with hdrHeadroom = alternateHdrHeadroom the weight is
\* exactly 1 when alternateHdrHeadroom > baseHdrHeadroom and exactly -1 when
\* alternateHdrHeadroom < baseHdrHeadroom.
C9_WeightSignedOneAtAlternate ==
    AtAlternateHeadroom =>
        out.weight = IF RatLess(avifUnsignedFractionToFloat(gainMap.baseHdrHeadroom),
                                avifUnsignedFractionToFloat(gainMap.alternateHdrHeadroom))
                     THEN RatOne ELSE RatNeg(RatOne)

\* The alternate headroom below the base headroom: the weight is -1.
C9_Witness ==
    /\ AtAlternateHeadroom
    /\ RatLess(avifUnsignedFractionToFloat(gainMap.alternateHdrHeadroom),
               avifUnsignedFractionToFloat(gainMap.baseHdrHeadroom))
    /\ out.weight = RatNeg(RatOne)

----------------------------------------------------------------------------
(* C10 *)

\* A returned call of avifRGBImageApplyGainMap with valid arguments, the two
\* headrooms equal as floats, and the output's format, depth, float-ness,
\* primaries and transfer characteristics those of the base.
FastPathCall ==
    /\ op = "applyRGB" /\ Returned /\ ApplyArgumentsValid
    /\ avifUnsignedFractionToFloat(gainMap.baseHdrHeadroom)
          = avifUnsignedFractionToFloat(gainMap.alternateHdrHeadroom)
    /\ out.toneMappedImage.format = args.baseRgbImage.format
    /\ out.toneMappedImage.depth = args.baseRgbImage.depth
    /\ out.toneMappedImage.isFloat = args.baseRgbImage.isFloat
    /\ args.outputColorPrimaries = args.baseColorPrimaries
    /\ args.outputTransferCharacteristics = args.baseTransferCharacteristics

\* The output holds the base's pixels and the gain map image was left alone.
CopiedBase ==
    /\ result = AVIF_RESULT_OK
    /\ out.toneMappedImage.pixels = args.baseRgbImage.pixels
    /\ out.toneMappedImage.width = args.baseRgbImage.width
    /\ out.toneMappedImage.height = args.baseRgbImage.height
    /\ ~out.did.rescaled /\ ~out.did.decoded

----------------------------------------------------------------------------
(* C11 *)

\* A call of Compute that returned OK for a single-channel gain map.
SingleChannelComputed ==
    /\ ComputeReturned
    /\ result = AVIF_RESULT_OK
    /\ gainMap.image.yuvFormat = "YUV400"

\* C11: after a successful Compute of a single-channel (YUV400) gain map,
\* gainMapMin, gainMapMax, baseOffset and alternateOffset of channels 1 and 2
\* equal those of channel 0.
C11_SingleChannelMetadataFromChannelZero ==
    SingleChannelComputed =>
        \A c \in Channels \ {0} :
            /\ gainMap.gainMapMin[c] = gainMap.gainMapMin[0]
            /\ gainMap.gainMapMax[c] = gainMap.gainMapMax[0]
            /\ gainMap.baseOffset[c] = gainMap.baseOffset[0]
            /\ gainMap.alternateOffset[c] = gainMap.alternateOffset[0]

----------------------------------------------------------------------------
(* C12 *)

\* C12: a call of Compute that returns an error leaves a message in the
\* diagnostics: no result other than OK comes with an empty diag.
C12_ErrorHasDiagnostics ==
    (ComputeReturned /\ result # AVIF_RESULT_OK) => diag # ""

----------------------------------------------------------------------------
(* C13 *)

\* C13: avifSameGainMapMetadata(M, M') is true when M' is M, and false when
\* M' differs from M in any single field: a numerator or a denominator of a
\* headroom or of a per-channel min, max, gamma or offset (also when the value
\* of the fraction stays the same), or useBaseColorSpace.
C13_SameDetectsEveryField ==
    (op = "sameMetadata" /\ Returned) =>
        (result = AVIF_TRUE <=> args.perturbation = NoChange)

----------------------------------------------------------------------------
(* C14 *)

\* Compute got as far as estimating the ranges: out.gainMapF holds the
\* log-ratios stored in gainMapF at that point.
RangesEstimated == ComputeReturned /\ DOMAIN out.gainMapF # {}

AlternateBelowBase ==
    RatLess(args.manualAlternateHdrHeadroom, args.manualBaseHdrHeadroom)

\* stored holds, pixel for pixel, the values of raw with the opposite sign.
OppositeSign(raw, stored) ==
    /\ DOMAIN stored = {-v : v \in DOMAIN raw}
    /\ \A v \in DOMAIN raw : stored[-v] = raw[v]

\* The written range of channel c lies within the values of buf and is the
\* range the estimator finds in buf.
RangeDescribes(c, buf) ==
    LET range == avifFindMinMaxWithoutOutliers(buf, TRUE)
        lo == SetMin(DOMAIN buf)
        hi == SetMax(DOMAIN buf)
    IN  /\ gainMap.gainMapMin[c] = avifDoubleToSignedFraction(MixedToRat(range.rangeMin))
        /\ gainMap.gainMapMax[c] = avifDoubleToSignedFraction(MixedToRat(range.rangeMax))
        /\ lo * gainMap.gainMapMin[c].d <= One * gainMap.gainMapMin[c].n
        /\ One * gainMap.gainMapMax[c].n <= hi * gainMap.gainMapMax[c].d

\* C14: when the configured alternate headroom is below the base headroom,
\* every stored log-ratio is the raw log2 ratio with the opposite sign, and the
\* written gainMapMin and gainMapMax are the range of the negated values; when
\* the alternate headroom is at least the base headroom no value is negated.
C14_NegatedBeforeRangeEstimation ==
    RangesEstimated =>
        \A c \in DOMAIN out.gainMapF :
            LET raw == args.ratioLog2[c]
                negated == [v \in {-x : x \in DOMAIN raw} |-> raw[-v]]
            IN  /\ AlternateBelowBase => OppositeSign(raw, out.gainMapF[c])
                /\ ~AlternateBelowBase => out.gainMapF[c] = raw
                /\ result = AVIF_RESULT_OK =>
                      RangeDescribes(c, IF AlternateBelowBase THEN negated ELSE raw)

\* A successful call with the alternate headroom below the base one and raw
\* ratios -1, 0, 0, 2: the written range is [-2, 1].
C14_Witness ==
    /\ RangesEstimated
    /\ result = AVIF_RESULT_OK
    /\ AlternateBelowBase
    /\ DOMAIN args.ratioLog2[0] = {-1000, 0, 2000}
    /\ out.gainMapF[0] = (-2000 :> 1) @@ (0 :> 2) @@ (1000 :> 1)
    /\ gainMap.gainMapMin[0] = Frac(-2, 1)
    /\ gainMap.gainMapMax[0] = Frac(1, 1)

----------------------------------------------------------------------------
(* C15 *)

\* A headroom fraction as the value the code reads: n / d, 0 when d = 0.
HeadroomValue(f) == IF f.d = 0 THEN [n |-> 0, d |-> 1] ELSE [n |-> f.n, d |-> f.d]

\* x <= y for two fractions with positive denominators.
FracLeq(x, y) == x.n * y.d <= y.n * x.d

\* w = sign * clamp((h - b) / (a - b), 0, 1), for a # b.
IsSignedClampedQuotient(w, h, b, a, sign) ==
    LET num == h.n * b.d - b.n * h.d        \* (h - b) * h.d * b.d
        den == a.n * b.d - b.n * a.d        \* (a - b) * a.d * b.d
        \* t = (num * a.d) / (den * h.d), written with a positive denominator
        tn == IF den < 0 THEN -(num * a.d) ELSE num * a.d
        td == IF den < 0 THEN -(den * h.d) ELSE den * h.d
    IN  IF tn <= 0 THEN w.n = 0
        ELSE IF tn >= td THEN w.n = sign * w.d
        ELSE w.n * td = sign * tn * w.d

\* C15: the weight lies in [-1, 1]; it is 0 when the two headrooms are equal
\* (a denominator of 0 read as the value 0), and otherwise
\* clamp((h - base) / (alternate - base), 0, 1), negated when alternate < base:
\* at least 0 when alternate > base, at most 0 when alternate < base, exactly
\* 0 at h = base, and never decreasing as h grows.
C15_WeightIsSignedClampedRatio ==
    (op = "weight" /\ Returned) =>
        LET h == args.hdrHeadroom
            b == HeadroomValue(gainMap.baseHdrHeadroom)
            a == HeadroomValue(gainMap.alternateHdrHeadroom)
            w == out.weight
            equal == b.n * a.d = a.n * b.d
            below == a.n * b.d < b.n * a.d
        IN  /\ w.d > 0
            /\ -w.d <= w.n /\ w.n <= w.d
            /\ equal => w.n = 0
            /\ ~equal => IsSignedClampedQuotient(w, h, b, a, IF below THEN -1 ELSE 1)
            /\ (~equal /\ ~below) => w.n >= 0
            /\ below => w.n <= 0
            /\ h.n * b.d = b.n * h.d => w.n = 0
            /\ \A h2 \in HeadroomValues :
                  FracLeq(h, h2) => FracLeq(w, avifGetGainMapWeight(h2, gainMap))

\* A display headroom strictly between an alternate headroom and a larger
\* base headroom: the weight is strictly between -1 and 0.
C15_Witness ==
    /\ op = "weight" /\ Returned
    /\ gainMap.baseHdrHeadroom = Frac(3, 1)
    /\ gainMap.alternateHdrHeadroom = Frac(1, 1)
    /\ args.hdrHeadroom = [n |-> 2, d |-> 1]
    /\ out.weight = [n |-> -1, d |-> 2]

----------------------------------------------------------------------------
(* C16 *)

\* A call of Compute that called avifChooseColorSpaceForGainMapMath.
ColorSpaceChosen == ComputeReturned /\ out.math.called

\* The least entry of a matrix, capped at 0: the least channel value of the
\* converted pure red, green and blue.
LeastCoefficient(m) ==
    LET S == {0} \cup {m.coeffs[i][j] : i \in Channels, j \in Channels}
    IN  CHOOSE x \in S : \A y \in S : x <= y

\* C16: avifChooseColorSpaceForGainMapMath returns the common primaries when
\* base and alternate primaries are equal, whatever the matrices; returns
\* NOT_IMPLEMENTED when they differ and either matrix cannot be computed;
\* otherwise picks the space in which the other's pure colours have the larger
\* least channel value (capped at 0), the base space on a tie.  A successful
\* Compute leaves useBaseColorSpace true exactly when the base space was chosen.
C16_LargerColorSpaceChosen ==
    ColorSpaceChosen =>
        LET base == args.baseColorPrimaries
            alt == args.altColorPrimaries
            m == out.math
            baseMin == LeastCoefficient(m.altToBase)
            altMin == LeastCoefficient(m.baseToAlt)
        IN  /\ base = alt =>
                  m.res = AVIF_RESULT_OK /\ m.gainMapMathColorSpace = base
            /\ (base # alt /\ (~m.baseToAlt.ok \/ ~m.altToBase.ok)) =>
                  m.res = AVIF_RESULT_NOT_IMPLEMENTED /\ result = AVIF_RESULT_NOT_IMPLEMENTED
            /\ (base # alt /\ m.baseToAlt.ok /\ m.altToBase.ok) =>
                  /\ m.res = AVIF_RESULT_OK
                  /\ baseMin > altMin => m.gainMapMathColorSpace = base
                  /\ baseMin < altMin => m.gainMapMathColorSpace = alt
                  /\ baseMin = altMin => m.gainMapMathColorSpace = base
            /\ result = AVIF_RESULT_OK =>
                  (gainMap.useBaseColorSpace = 1 <=> m.gainMapMathColorSpace = base)
                  /\ gainMap.useBaseColorSpace \in {0, 1}

\* Two names of the same chromaticities: a tie, the base space is chosen.
C16_Witness ==
    /\ ColorSpaceChosen
    /\ result = AVIF_RESULT_OK
    /\ args.baseColorPrimaries = "BT601" /\ args.altColorPrimaries = "SMPTE240"
    /\ LeastCoefficient(out.math.altToBase) = LeastCoefficient(out.math.baseToAlt)
    /\ out.math.gainMapMathColorSpace = "BT601"
    /\ gainMap.useBaseColorSpace = 1

----------------------------------------------------------------------------
(* C17 *)

\* The fraction f is 1/64 - channelMin, or 1/10 when that is more than 1/10.
IsWidenedOffset(f, channelMin) ==
    LET wn == channelMin.d - 64 * channelMin.n      \* 1/64 - channelMin = wn / wd
        wd == 64 * channelMin.d
    IN  IF 10 * wn <= wd
        THEN f.n * wd = wn * f.d
        ELSE 10 * f.n = f.d

\* C17: after a successful Compute every baseOffset[c] and alternateOffset[c]
\* lies in [1/64, 1/10].  An offset differs from 1/64 only when the primaries
\* differ and the least converted value of the channel is negative, and is then
\* min(1/64 - channelMin, 1/10); only the offsets of the converted rendition
\* (the alternate one when useBaseColorSpace, else the base one) change.
C17_OffsetsWidenedWithinBounds ==
    (ComputeReturned /\ result = AVIF_RESULT_OK) =>
        LET colorSpacesDiffer == args.baseColorPrimaries # args.altColorPrimaries
            useBase == gainMap.useBaseColorSpace = 1
            channelMin == IF useBase THEN args.altChannelMin ELSE args.baseChannelMin
            converted == IF useBase THEN gainMap.alternateOffset ELSE gainMap.baseOffset
            kept == IF useBase THEN gainMap.baseOffset ELSE gainMap.alternateOffset
        IN  \A c \in Channels :
                /\ converted[c].d > 0 /\ kept[c].d > 0
                /\ 64 * converted[c].n >= converted[c].d
                /\ 10 * converted[c].n <= converted[c].d
                /\ kept[c] = Frac(1, 64)
                /\ IF colorSpacesDiffer /\ channelMin[c].n < 0
                   THEN IsWidenedOffset(converted[c], channelMin[c])
                   ELSE converted[c] = Frac(1, 64)

\* The base image converted to the alternate primaries with a least value of
\* -1 in channel 0 and -1/64 elsewhere or 0: the base offset of channel 0 is
\* capped at 1/10.
C17_Witness ==
    /\ ComputeReturned /\ result = AVIF_RESULT_OK
    /\ args.baseColorPrimaries # args.altColorPrimaries
    /\ gainMap.useBaseColorSpace = 0
    /\ args.baseChannelMin[0] = [n |-> -1, d |-> 1]
    /\ gainMap.baseOffset[0] = Frac(1, 10)
    /\ gainMap.baseOffset[1] = Frac(1, 64)
    /\ gainMap.alternateOffset[0] = Frac(1, 64)

----------------------------------------------------------------------------
(* C18 *)

ApplyScratch == {"rgbGainMap", "rescaledGainMap", "baseImageRgb"}

\* A call of Apply that returned without dereferencing a NULL pointer.
ApplyReturnedDefined ==
    /\ op \in ApplyOps /\ Returned
    /\ args.nulls \cap {"baseImage", "gainMap", "gainMap.image"} = {}

\* C18: when Apply returns, by whatever exit, rgbGainMap, the rescaled gain
\* map image and (for avifImageApplyGainMap) the scratch base RGB buffer have
\* each been released exactly once if they were acquired, and never otherwise.
C18_ApplyScratchReleasedOnce ==
    ApplyReturnedDefined =>
        \A x \in ApplyScratch :
            /\ heap.allocated[x] <= 1
            /\ heap.released[x] = heap.allocated[x]

\* A failing call of avifImageApplyGainMap that had acquired all three.
C18_Witness ==
    /\ ApplyReturnedDefined
    /\ op = "applyImage"
    /\ result # AVIF_RESULT_OK
    /\ \A x \in ApplyScratch : heap.allocated[x] = 1 /\ heap.released[x] = 1

----------------------------------------------------------------------------
(* C19 *)

\* C19: whenever Compute returns OK, the metadata it wrote passes
\* avifGainMapValidateMetadata: every denominator is non-zero, gainMapMax is
\* at least gainMapMin in each channel, every gamma is 1/1 and
\* useBaseColorSpace is 0 or 1.
C19_ComputedMetadataIsValid ==
    (ComputeReturned /\ result = AVIF_RESULT_OK) =>
        /\ avifGainMapValidateMetadata(gainMap).res = AVIF_RESULT_OK
        /\ gainMap.baseHdrHeadroom.d # 0 /\ gainMap.alternateHdrHeadroom.d # 0
        /\ gainMap.useBaseColorSpace \in {0, 1}
        /\ \A c \in Channels :
              /\ gainMap.gainMapMin[c].d > 0 /\ gainMap.gainMapMax[c].d > 0
              /\ gainMap.baseOffset[c].d > 0 /\ gainMap.alternateOffset[c].d > 0
              /\ gainMap.gainMapMin[c].n * gainMap.gainMapMax[c].d
                    <= gainMap.gainMapMax[c].n * gainMap.gainMapMin[c].d
              /\ gainMap.gainMapGamma[c] = Frac(1, 1)

\* A successful call on a gain map that held decoded metadata with gamma 2/1,
\* with a range that starts below 0 and ends above it.
C19_Witness ==
    /\ ComputeReturned /\ result = AVIF_RESULT_OK
    /\ args.gainMapBefore.gainMapGamma[0] = Frac(2, 1)
    /\ gainMap.gainMapMin[0].n < 0 /\ gainMap.gainMapMax[0].n > 0
    /\ avifGainMapValidateMetadata(gainMap).res = AVIF_RESULT_OK

----------------------------------------------------------------------------
(* C20 *)

\* A call of Apply that returned OK without dereferencing a NULL pointer.
ApplySucceeded == ApplyReturnedDefined /\ result = AVIF_RESULT_OK

\* nits brought into [0, 65535].
Within16Bits(nits) == IF nits < 0 THEN 0 ELSE IF nits > 65535 THEN 65535 ELSE nits

\* C20: when Apply succeeds with a weight of 0, by the copy or by the
\* conversion of the base image, clli is as before the call; maxCLL and
\* maxPALL are written only by the general path and only when clli is not
\* NULL, each with its value clamped to [0, 65535].
C20_ClliWrittenOnlyByGeneralPath ==
    ApplySucceeded =>
        /\ out.did.weight = RatZero =>
              out.did.path \in {"copy", "convert"} /\ out.clli = ClliBefore
        /\ out.clli # ClliBefore =>
              out.did.path = "general" /\ "clli" \notin args.nulls
        /\ "clli" \in args.nulls => out.clli = ClliBefore
        /\ (out.did.path = "general" /\ "clli" \notin args.nulls) =>
              /\ out.clli.maxCLL = Within16Bits(out.did.nits.max)
              /\ out.clli.maxPALL = Within16Bits(out.did.nits.avg)
              /\ out.clli.maxCLL \in 0 .. 65535
              /\ out.clli.maxPALL \in 0 .. 65535

\* The general path with a brightest pixel above 65535 nits: maxCLL is 65535.
C20_Witness ==
    /\ ApplySucceeded
    /\ out.did.path = "general"
    /\ "clli" \notin args.nulls
    /\ out.did.nits.max > 65535
    /\ out.clli.maxCLL = 65535

----------------------------------------------------------------------------
(* C21 *)

\* The three argument checks of avifRGBImageApplyGainMap, in the order of the
\* code, as seen from the arguments of the call.
NegativeHeadroom == args.hdrHeadroom.n < 0
NullInputImage == args.nulls \cap {"baseImage", "gainMap", "toneMappedImage"} # {}
InvalidMetadata == avifGainMapValidateMetadata(gainMap).res # AVIF_RESULT_OK

\* The message the first failing check prints.
FirstFailingCheckMessage ==
    IF NegativeHeadroom THEN "hdrHeadroom should be >= 0, got %f"
    ELSE IF NullInputImage THEN "NULL input image"
    ELSE avifGainMapValidateMetadata(gainMap).msg

\* A call of avifRGBImageApplyGainMap takes its step.
ApplyRGBReturns == op = "applyRGB" /\ result = Pending /\ result' # Pending

\* C21: a call of avifRGBImageApplyGainMap with hdrHeadroom < 0, a NULL
\* baseImage, gainMap or toneMappedImage, or metadata that fails validation
\* returns INVALID_ARGUMENT with the message of the first failing check
\* (headroom, then NULL, then validation) and leaves the output image, clli
\* and the heap as they were; a call that changes the output image passed all
\* three checks, and a call that passed them with gainMap->image set has the
\* output image at the base image's width and height.
C21_EarlyInvalidArgumentLeavesOutput ==
    [][ApplyRGBReturns =>
          /\ (NegativeHeadroom \/ NullInputImage \/ InvalidMetadata) =>
                /\ result' = AVIF_RESULT_INVALID_ARGUMENT
                /\ diag' = FirstFailingCheckMessage
                /\ out'.toneMappedImage = out.toneMappedImage
                /\ out'.clli = out.clli
                /\ heap' = heap
          /\ out'.toneMappedImage # out.toneMappedImage =>
                ~(NegativeHeadroom \/ NullInputImage \/ InvalidMetadata)
          /\ (~(NegativeHeadroom \/ NullInputImage \/ InvalidMetadata)
              /\ "gainMap.image" \notin args.nulls) =>
                /\ out'.toneMappedImage.width = args.baseRgbImage.width
                /\ out'.toneMappedImage.height = args.baseRgbImage.height]_vars

\* A call with a headroom that passes, every pointer set and metadata that
\* fails validation has returned INVALID_ARGUMENT, the output image still
\* without a size and without pixels.
C21_Witness ==
    /\ op = "applyRGB"
    /\ result = AVIF_RESULT_INVALID_ARGUMENT
    /\ ~NegativeHeadroom /\ ~NullInputImage /\ InvalidMetadata
    /\ out.toneMappedImage.width = 0 /\ out.toneMappedImage.height = 0
    /\ out.toneMappedImage.pixels = NoPixels
    /\ heap = NoHeap

============================================================================
